---- MODULE Spec2Model ----
(***************************************************************************)
(* Model of oni_api_client.client.ApiClient: the two WebSocket maintenance *)
(* tasks, the request/response correlation table, the event queue, and the *)
(* callers of connect(), disconnect(), send_request() and get_events().    *)
(* One action is one scheduler step of the asyncio event loop: the code    *)
(* that runs between two suspension points (await) of one coroutine.       *)
(* With it: the high-level API methods of the client and the decoding of   *)
(* ColonyState, Planner.create_plan of oxygen_not_included_ai, and the     *)
(* connection status and the command bridge of the desktop debugger's      *)
(* worker thread.  Further: the training engine's TrainingLoop and         *)
(* RuleBasedAgent, the TaskDecomposer's search for a building location     *)
(* and its flood fill, the ContextSlicer as the coordinator calls it, and  *)
(* ColonyState.to_dict / from_dict.                                        *)
(***************************************************************************)
EXTENDS Integers, Sequences, FiniteSets, TLC

\* ---- bounds ----
MaxReq == 2        \* number of send_request calls
MaxConnect == 2    \* number of connect() calls
MaxEvents == 2     \* number of frames the event server pushes
MaxBothReq == 1    \* send_request calls while both channels carry traffic
MaxBothEvents == 2 \* event frames while both channels carry traffic
MaxOver == 2       \* how far outside the valid range a speed or priority goes
MaxCell == 1       \* cell coordinates are 0..MaxCell
MaxList == 3       \* length of the arrays of a State.Get payload
MaxWorlds == 2     \* worlds of the colony state a Planner is given
MaxDups == 2       \* duplicants of one world
MaxCommands == 3   \* commands the debugger's GUI sends
MaxEpisodes == 1   \* episodes a TrainingLoop run ends
MaxGuiCommands == 2 \* commands the training GUI sends
MaxGridSide == 2   \* rows and columns of the small grids
MaxLimit == 2      \* largest small max_cells of a validation call
WideGridWidth == 101 \* columns of the one-row grid that is all vacuum
MaxCycle == 2      \* last cycle of the coordinator's game states
MaxItems == 1      \* duplicants and buildings of a serialized colony

Ids == 1..MaxReq
Tasks == 1..MaxConnect

None == 0          \* Python None for a handle (command_ws, event_ws, _command_task)
NoId == 0          \* a frame without a "requestId" key (data.get gives None)
UnknownId == MaxReq + 1   \* an id no send_request call ever generated

VARIABLES
    running,           \* self._running
    command_ws,        \* self.command_ws: None or the socket opened by task t
    event_ws,          \* self.event_ws
    command_task,      \* self._command_task: None or the latest command task
    event_task,        \* self._event_task
    pending_requests,  \* keys of self.pending_requests (the value is req[r].fut)
    event_queue,       \* self.event_queue
    cmdTask,           \* every _maintain_command_connection task ever created
    evtTask,           \* every _maintain_event_connection task ever created
    dpc,               \* position of the running disconnect() call
    dws,               \* the task whose socket disconnect() is closing
    dsnap,             \* the requests outstanding when disconnect() was called
    req,               \* every send_request call, by request id
    cmd_log,           \* the last record _handle_command_messages logged
    evn,               \* number of frames the event server has pushed
    enull,             \* the frames among them that were the JSON text null
    got,               \* events returned by get_events, in order of return
    gpc,               \* position of the get_events caller
    gret,              \* how the last get_events call ended
    api,               \* the last call of a high-level API method
    planner,           \* the Planner object and the plan create_plan returned
    status,            \* the last connection_status_changed of the debugger
    bridge,            \* the debugger's worker thread and its command queue
    training,          \* the TrainingLoop object and the GUI socket's buffer
    agent,             \* the RuleBasedAgent of a training run
    finder,            \* a call of _find_suitable_location_2d and what it returned
    bfs,               \* a call of _validate_space_bfs: its arguments and locals
    slicer,            \* the ContextSlicer of a coordinator cycle and the task it works on
    codec              \* a ColonyState, its dictionary and the ColonyState read back

vars == <<running, command_ws, event_ws, command_task, event_task,
          pending_requests, event_queue, cmdTask, evtTask, dpc, dws, dsnap,
          req, cmd_log, evn, enull, got, gpc, gret, api,
          planner, status,
          bridge,
          training,
          agent,
          finder,
          bfs,
          slicer,
          codec>>

\* ---- values ----
NoFrame == [kind |-> "none", requestId |-> NoId]

\* frames the command server can push: text that is not JSON, JSON that is
\* not an object, and objects with or without a requestId
CommandFrames ==
    {[kind |-> "bad", requestId |-> NoId],
     [kind |-> "nonobj", requestId |-> NoId]}
    \cup [kind : {"obj"}, requestId : {NoId, UnknownId} \cup Ids]

\* the level of the last record _handle_command_messages logged: nothing
\* yet, the warning of line 115, the errors of lines 118 and 120
LogRecords == {"none", "warning", "error"}

\* where a maintenance task can be suspended: not yet started, in
\* websockets.connect, in the async for of its handler, in the close() of the
\* async with after a CancelledError, in the reconnect sleep
TaskPcs == {"none", "created", "connecting", "reading", "exiting", "sleeping", "done"}

\* how a get_events call ends: no call has ended yet, an event that is not
\* None is returned (line 280), None is returned (lines 280, 282),
\* asyncio.TimeoutError is raised
GetEventsResults == {"none", "event", "None", "TimeoutError"}

NewTask == [pc |-> "none", sock |-> "none", cancel |-> FALSE]

NewReq == [pc |-> "new", fut |-> "none", result |-> NoFrame,
           outcome |-> "none", ws |-> None, sent |-> FALSE]

\* ---- values of the high-level API ----
ApiMethods == {"none", "get_state", "build", "set_priority", "set_speed",
               "pause", "resume"}

\* arguments the methods are called with
Speeds == (0 - MaxOver)..(3 + MaxOver)
Priorities == (1 - MaxOver)..(9 + MaxOver)
Cells == 0..MaxCell
BuildingIds == {"Generator", "farm_tile"}

SeqsUpTo(S, n) == UNION {[1..k -> S] : k \in 0..n}

\* a JSON array of duplicant or building objects, each with its "id"
Arrays == SeqsUpTo([id : {"a", "b"}], MaxList)

\* the "timestamp" of a payload: no such key, an ISO 8601 text, another text
Timestamps == {"absent", "iso", "invalid"}

\* the dict {} ("payload or {}" of line 152, the default of line 179)
EmptyDict == [has |-> {}, timestamp |-> "absent", duplicants |-> <<>>,
              buildings |-> <<>>]

\* "payload" objects of a State.Get response; has holds the array keys
\* that are present
Payloads ==
    UNION {{[has |-> h, timestamp |-> t, duplicants |-> d, buildings |-> b] :
                t \in Timestamps,
                d \in IF "duplicants" \in h THEN Arrays ELSE {<<>>},
                b \in IF "buildings" \in h THEN Arrays ELSE {<<>>}} :
           h \in SUBSET {"duplicants", "buildings"}}

\* the "success" of a response: no such key, true, false, null, another value
SuccessValues == {"absent", "true", "false", "null", "other"}

\* responses to a command: JSON objects with or without "success"
SuccessResponses == [success : SuccessValues]

\* responses to State.Get: JSON objects with or without "payload"
StateResponses == [has_payload : BOOLEAN, payload : Payloads]

NoState == [error |-> "none", duplicants |-> <<>>, buildings |-> <<>>]

NoCall == [pc |-> "idle", method |-> "none", args |-> <<>>, sent |-> <<>>,
           response |-> <<>>, ret |-> "none", state |-> NoState]

\* ---- values of the planner ----

\* the goals of planner.py line 14 and a goal create_plan does not know
Goals == {"achieve_self_sufficiency", "explore_map", "test_goal_1"}

\* the Stress of a duplicant, at and above the threshold of line 38
Stresses == {50, 51}

\* ColonyState.Worlds as the sequence of its values(), each world as the
\* Stress of its Duplicants
ColonyStates == SeqsUpTo(SeqsUpTo(Stresses, MaxDups), MaxWorlds)

NoPlanner == [pc |-> "none", game_state |-> <<>>, goals |-> {}, plan |-> <<>>]

\* ---- values of the debugger's command bridge ----
Commands == 1..MaxCommands

\* what has become of a command: not sent, in command_queue, handed to a
\* _process_command task, answered with response_received, answered with
\* error_occurred
CommandStates == {"none", "queued", "inflight", "response", "error"}

NoBridge == [pc |-> "none", running |-> FALSE, queue |-> <<>>,
             taken |-> <<>>, command |-> [c \in Commands |-> "none"]]

\* ---- values of the training loop ----

\* what get_events gives the loop: None, an event of another type, a
\* State.Update whose payload has duplicants, one whose payload has none
TrainingEvents == {"None", "other", "update_dups", "update_empty"}

\* the GUI commands that set is_training
GuiCommands == {"pause", "resume"}

\* TrainingLoop.__init__, main_loop.py lines 30-46; gui is the data the GUI
\* has written to the socket and the loop has not received, by command
NewTraining == [pc |-> "none", is_training |-> FALSE,
                current_state |-> "None", previous_state |-> "None",
                episode_num |-> 0, step_num |-> 0,
                current_episode_reward |-> 0, current_episode_length |-> 0,
                episode_lengths |-> <<>>,
                gui |-> <<>>, sent |-> 0, last |-> "none"]

\* ---- values of the rule-based agent ----

\* the needs _update_priorities looks for, in the order it looks for them
Needs == {"oxygen", "food", "power", "water"}

\* colony states the agent observes: the oxygen of each duplicant, the sum
\* of the food resources, the number of generators, the water available
ObservedStates ==
    { [duplicants |-> <<90, 90>>, food |-> 5000, generators |-> 2, water |-> 2000],
      [duplicants |-> <<40, 60>>, food |-> 5000, generators |-> 2, water |-> 2000],
      [duplicants |-> <<40, 60>>, food |-> 5000, generators |-> 2, water |-> 0],
      [duplicants |-> <<90, 90>>, food |-> 0, generators |-> 0, water |-> 2000],
      [duplicants |-> <<>>, food |-> 0, generators |-> 1, water |-> 0] }

\* RuleBasedAgent.__init__, rule_based_agent.py lines 11-14; waited counts,
\* for each need, the decide_action calls with that need on top since the
\* agent last acted on it (-1: never acted), top and before are the need
\* the last call looked at and its count before the call
NewAgent == [pc |-> "observe", last_state |-> "None", priority_queue |-> <<>>,
             action_cooldown |-> <<>>, ret |-> "none",
             waited |-> [n \in Needs |-> -1], top |-> "none", before |-> -1]

\* ---- values of the task decomposer ----

\* a numpy grid: its shape (rows, columns) and its cells by (row, column),
\* both counted from 0; 0 is vacuum
GridsOfShape(h, w) ==
    { [shape |-> <<h, w>>, cell |-> c] : c \in [(0..h-1) \X (0..w-1) -> {0, 1}] }

SmallGrids == UNION { GridsOfShape(h, w) : h \in 1..MaxGridSide, w \in 1..MaxGridSide }

WideGrid == [shape |-> <<1, WideGridWidth>>,
             cell |-> [p \in {0} \X (0..WideGridWidth-1) |-> 0]]

\* the width and height of a building
Sides == 1..MaxGridSide

\* the calls of _find_suitable_location_2d: (width, height, grid)
FindCalls ==
    (Sides \X Sides \X SmallGrids)
        \cup {<<1, 1, WideGrid>>, <<WideGridWidth - 1, 1, WideGrid>>,
              <<WideGridWidth, 1, WideGrid>>}

\* the max_cells of a validation call: small ones and the default
Limits == (0..MaxLimit) \cup {100}

\* no location: the None of task_decomposer.py line 123
NoLocation == <<>>

NoFinder == [pc |-> "idle", width |-> 0, height |-> 0, grid |-> <<>>,
             location |-> NoLocation, prep_actions |-> "none"]

NoBfs == [pc |-> "idle", start_x |-> 0, start_y |-> 0, width |-> 0, height |-> 0,
          grid |-> <<>>, max_cells |-> 0, visited |-> {}, queue |-> <<>>,
          explored |-> 0, ret |-> "none"]

\* ---- values of the context slicer ----

\* game states as the dictionaries of tests/mock_data.py, with the keys the
\* slicer reads
GameStates ==
    [cycle : 0..MaxCycle,
     duplicants : {<<>>, <<"Stinky", "Hassan">>},
     resources : {[Copper |-> 0], [Copper |-> 5000]},
     research_progress : {[BasicFarming |-> 0], [BasicFarming |-> 1]}]

\* the tasks of planner.py lines 27-39, a Build task without a building
\* type, a task without an action and the empty task
SlicerTasks ==
    << [action |-> "Build", params |-> [building_type |-> "farm_tile", x |-> 5, y |-> 5]],
       [action |-> "Build", params |-> <<>>],
       [action |-> "Research", params |-> [tech_name |-> "Advanced Farming"]],
       [action |-> "Dig", params |-> [x |-> 20, y |-> 20]],
       [action |-> "Assign", params |-> [task |-> "relax"]],
       [params |-> [x |-> 20, y |-> 20]],
       <<>> >>

\* no ContextSlicer yet; ret is what get_context_for_task returned, "None"
\* or "dict" with the dictionary in context, raised and actions are the
\* outcome of decompose_task
NoSlicer == [pc |-> "none", full_game_state |-> <<>>, task |-> <<>>,
             ret |-> "none", context |-> <<>>,
             raised |-> "none", actions |-> <<>>]

\* ---- values of the colony state's serialization ----

\* a datetime as its date and time of day with the microsecond apart
Datetimes == [day : {"2024-01-01T00:00:00"}, microsecond : {0, 5}]

\* models.py lines 86-99, 42-51, 136-143: the dataclasses
\* with the values that differ from the defaults of their from_dict; None
\* is written "None"
DuplicantStates ==
    [id : {"d1"}, name : {"Meep"}, position : {[x |-> 3, y |-> 7]}, health : {90},
     stress : {5}, calories : {3000}, oxygen : {80}, bladder : {10},
     stamina : {70}, current_task : {"None", "Dig"}, skills : {<<"Digging">>},
     traits : {<<>>}]

BuildingInfos ==
    [id : {"b1"}, name : {"Generator"}, position : {[x |-> 0, y |-> 7]}, enabled : {TRUE},
     health : {40}, max_health : {50, 100}, temperature : {300},
     storage : {[Coal |-> 10]}]

WorldStates ==
    [cycle : {12}, time_of_day : {30}, world_seed : {42},
     asteroid_name : {"Terra"}, temperature_range : {<<0, 0>>, <<250, 320>>},
     pressure_range : {<<0, 1500>>}]

\* the ColonyState objects get_state hands to the debugger
Colonies ==
    [timestamp : Datetimes, world : WorldStates,
     duplicants : SeqsUpTo(DuplicantStates, MaxItems),
     buildings : SeqsUpTo(BuildingInfos, MaxItems),
     resources : {<<>>, <<[name |-> "Water", available |-> 500, capacity |-> 1000,
                          delta_per_cycle |-> -20],
                         [name |-> "Algae", available |-> 0, capacity |-> 1000,
                          delta_per_cycle |-> 0]>>},
     chores : {<<>>, <<[id |-> "c1", name |-> "Dig", priority |-> 5,
                       assigned_to |-> "None", progress |-> 50],
                      [id |-> "c2", name |-> "Cook", priority |-> 9,
                       assigned_to |-> "d1", progress |-> 0]>>},
     cells : {<<>>, <<[position |-> [x |-> 3, y |-> 7], temperature |-> 290,
                      pressure |-> 100, mass |-> 1, element |-> "Oxygen",
                      solid |-> FALSE, liquid |-> FALSE, gas |-> TRUE]>>},
     alerts : {<<>>, <<"Low oxygen", "Food shortage">>}]

NoCodec == [pc |-> "idle", state |-> <<>>, dict |-> <<>>, back |-> <<>>]

TypeOK ==
    /\ running \in BOOLEAN
    /\ command_ws \in {None} \cup Tasks
    /\ event_ws \in {None} \cup Tasks
    /\ command_task \in {None} \cup Tasks
    /\ event_task \in {None} \cup Tasks
    /\ pending_requests \subseteq Ids
    /\ event_queue \in Seq(1..MaxEvents)
    /\ \A t \in Tasks :
          /\ cmdTask[t].pc \in TaskPcs
          /\ evtTask[t].pc \in TaskPcs
          /\ cmdTask[t].sock \in {"none", "open", "closing", "closed"}
          /\ evtTask[t].sock \in {"none", "open", "closing", "closed"}
    /\ dpc \in {"idle", "close_cmd", "cmd_closed", "close_evt", "evt_closed"}
    /\ dws \in {None} \cup Tasks
    /\ dsnap \subseteq Ids
    /\ cmd_log \in LogRecords
    /\ \A r \in Ids :
          /\ req[r].pc \in {"new", "sending", "send_failing", "waiting", "timing_out", "done"}
          /\ req[r].fut \in {"none", "pending", "result", "cancelled"}
          /\ req[r].outcome \in {"none", "response", "timeout", "cancelled",
                                 "ConnectionError", "ConnectionClosed"}
    /\ evn \in 0..MaxEvents
    /\ enull \subseteq 1..MaxEvents
    /\ got \in Seq(1..MaxEvents)
    /\ gpc \in {"idle", "waiting"}
    /\ gret \in GetEventsResults
    /\ api.pc \in {"idle", "awaiting", "returned", "raised"}
    /\ api.method \in ApiMethods
    /\ Len(api.sent) <= 1
    /\ planner.pc \in {"none", "constructed", "planned"}
    /\ planner.goals \subseteq Goals
    /\ planner.game_state \in ColonyStates
    /\ status \in {"none", "True", "False"}
    /\ bridge.pc \in {"none", "looping", "exited"}
    /\ bridge.running \in BOOLEAN
    /\ bridge.queue \in Seq(Commands)
    /\ bridge.taken \in Seq(Commands)
    /\ \A c \in Commands : bridge.command[c] \in CommandStates
    /\ training.pc \in {"none", "get_events", "check_gui", "cleanup", "ended"}
    /\ training.is_training \in BOOLEAN
    /\ training.current_state \in {"None", "dups", "empty"}
    /\ training.previous_state \in {"None", "dups", "empty"}
    /\ training.episode_num \in 0..MaxEpisodes
    /\ training.current_episode_length \in Nat
    /\ training.episode_lengths \in Seq(Nat)
    /\ training.gui \in Seq(GuiCommands)
    /\ training.last \in {"none"} \cup GuiCommands
    /\ agent.pc \in {"observe", "decide"}
    /\ agent.last_state \in {"None", "state"}
    /\ \A i \in 1..Len(agent.priority_queue) : agent.priority_queue[i][1] \in Needs
    /\ DOMAIN agent.action_cooldown \subseteq Needs
    /\ \A n \in DOMAIN agent.action_cooldown : agent.action_cooldown[n] \in 0..10
    /\ agent.ret \in {"none", "noop", "Global.Build", "Global.Dig"}
    /\ agent.waited \in [Needs -> -1..11]
    /\ finder.pc \in {"idle", "returned"}
    /\ finder.prep_actions \in {"none", "[]"}
    /\ bfs.pc \in {"idle", "loop", "returned"}
    /\ bfs.ret \in {"none", "True", "False"}
    /\ bfs.explored \in Nat
    /\ slicer.pc \in {"none", "ready", "sliced", "decomposed"}
    /\ slicer.ret \in {"none", "None", "dict"}
    /\ slicer.raised \in {"none", "AttributeError"}
    /\ codec.pc \in {"idle", "dict", "decoded"}

\* ApiClient.__init__
Init ==
    /\ running = FALSE
    /\ command_ws = None
    /\ event_ws = None
    /\ command_task = None
    /\ event_task = None
    /\ pending_requests = {}
    /\ event_queue = <<>>
    /\ cmdTask = [t \in Tasks |-> NewTask]
    /\ evtTask = [t \in Tasks |-> NewTask]
    /\ dpc = "idle"
    /\ dws = None
    /\ dsnap = {}
    /\ req = [r \in Ids |-> NewReq]
    /\ cmd_log = "none"
    /\ evn = 0
    /\ enull = {}
    /\ got = <<>>
    /\ gpc = "idle"
    /\ gret = "none"
    /\ api = NoCall
    /\ planner = NoPlanner
    /\ status = "none"
    /\ bridge = NoBridge
    /\ training = NewTraining
    /\ agent = NewAgent
    /\ finder = NoFinder
    /\ bfs = NoBfs
    /\ slicer = NoSlicer
    /\ codec = NoCodec


\* ---- helpers ----

\* a maintenance task that ends when its connection ends
AfterFinallyStops == "done"

\* position of a maintenance task after its try/finally: line 77 (99) sleeps
\* when the running flag is set, otherwise the while condition ends the task
AfterFinally == IF running THEN "sleeping" ELSE "done"

\* a send in progress on the socket of task t raises once that socket is closed
FailSends(t) ==
    [r \in Ids |-> IF req[r].pc = "sending" /\ req[r].ws = t
                   THEN [req[r] EXCEPT !.pc = "send_failing"]
                   ELSE req[r]]

\* disconnect() resumes from "await ws.close()" once that socket is closed
CloseAwaited(closing, closed, t) ==
    IF dpc = closing /\ dws = t THEN closed ELSE dpc

\* a handler that matches a frame to the oldest outstanding request
LookupOldest(request_id) ==
    IF pending_requests # {}
    THEN CHOOSE r \in pending_requests : \A q \in pending_requests : r <= q
    ELSE None

\* a handler that gives a frame with a foreign id to the oldest request
LookupOrOldest(request_id) ==
    IF request_id # NoId /\ request_id \in pending_requests THEN request_id
    ELSE LookupOldest(request_id)

\* lines 110-111: the table entry the handler takes for a frame's requestId,
\* None when the id is missing (falsy) or not a key of pending_requests
Lookup(request_id) ==
    IF request_id # NoId /\ request_id \in pending_requests
    THEN request_id
    ELSE None

\* a handler that sets the result of a future that is already done
SetResultAlways(rq, id, f) ==
    [rq EXCEPT ![id].fut = "result", ![id].result = f]

\* lines 112-113: set_result unless the future is already done
SetResult(rq, id, f) ==
    IF rq[id].fut = "pending"
    THEN [rq EXCEPT ![id].fut = "result", ![id].result = f]
    ELSE rq

\* a send_request without the check of line 145
NeverRefuses(ws) == FALSE

\* line 145: send_request refuses to send without a socket handle
NotConnected(ws) == ws = None

\* a disconnect() that clears the table without cancelling the futures
CancelNone(rq, table) == rq

\* lines 54-56: disconnect() cancels every future of the table that is not done
CancelAll(rq, table) ==
    [r \in Ids |-> IF r \in table /\ rq[r].fut = "pending"
                   THEN [rq[r] EXCEPT !.fut = "cancelled"]
                   ELSE rq[r]]

\* a disconnect() without the clear() of line 57
KeepAll(table) == table

\* line 57: pending_requests.clear()
Clear(table) == {}

\* an except clause without the pop
PopNothing(table, id) == table

\* lines 111, 168, 171: pending_requests.pop(request_id)
Pop(table, id) == table \ {id}

\* a send_request that writes the frame without an entry in the table
InsertNothing(table, id) == table

\* line 157: pending_requests[request_id] = future
Insert(table, id) == table \cup {id}

\* a queue that hands out the newest event first
PutFront(q, e) == <<e>> \o q

\* line 127: event_queue.put(data)
Put(q, e) == Append(q, e)

\* line 280: event_queue.get() hands out the oldest queued event
Get(q) == Head(q)

\* line 148: uuid4 gives an id no earlier call used; calls are numbered in the
\* order they are made
Uuid4 == CHOOSE r \in Ids : req[r].pc = "new" /\ \A q \in Ids : q < r => req[q].pc # "new"

\* ---- connect() ----

\* lines 35-37: set the flag, create the two tasks and keep their handles;
\* tasks are numbered in the order they are created. connect() awaits
\* nothing, so its caller goes on in the same step
StartTasks ==
    /\ running' = TRUE
    /\ command_task' = command_task + 1
    /\ event_task' = event_task + 1
    /\ cmdTask' = [cmdTask EXCEPT ![command_task + 1].pc = "created"]
    /\ evtTask' = [evtTask EXCEPT ![event_task + 1].pc = "created"]
    /\ UNCHANGED <<command_ws, event_ws, pending_requests, event_queue, dpc,
                   dws, dsnap, req, cmd_log, evn, enull, got, gpc, gret, api,
                   planner, bridge, training, agent, finder, bfs, slicer,
                   codec>>

\* lines 33-37; every caller in the repository calls connect() once, on a
\* client it has just constructed (training_engine/main_loop.py:53-54,
\* desktop_debugger/main.py:61-65)
Connect ==
    /\ command_task = None
    /\ StartTasks
    /\ UNCHANGED status

\* lines 33-37, called on a client that was connected before: nothing in
\* connect() looks at the tasks it created earlier
ConnectAgain ==
    /\ command_task # None
    /\ command_task < MaxConnect
    /\ StartTasks
    /\ UNCHANGED status

\* ---- _maintain_command_connection ----

\* line 61: the while condition, on the first step of the task and after the
\* reconnect sleep of line 79
CommandLoop(t) ==
    /\ cmdTask[t].pc \in {"created", "sleeping"}
    /\ ~cmdTask[t].cancel
    /\ cmdTask' = [cmdTask EXCEPT ![t].pc = IF running THEN "connecting" ELSE "done"]
    /\ UNCHANGED <<running, command_ws, event_ws, command_task, event_task,
                   pending_requests, event_queue, evtTask, dpc, dws, dsnap,
                   req, cmd_log, evn, enull, got, gpc, gret, api, planner,
                   status, bridge, training, agent, finder, bfs, slicer,
                   codec>>

\* lines 64-68: websockets.connect succeeds
CommandConnected(t) ==
    /\ cmdTask[t].pc = "connecting"
    /\ ~cmdTask[t].cancel
    /\ command_ws' = t
    /\ cmdTask' = [cmdTask EXCEPT ![t].pc = "reading", ![t].sock = "open"]
    /\ UNCHANGED <<running, event_ws, command_task, event_task,
                   pending_requests, event_queue, evtTask, dpc, dws, dsnap,
                   req, cmd_log, evn, enull, got, gpc, gret, api, planner,
                   status, bridge, training, agent, finder, bfs, slicer,
                   codec>>

\* a maintenance task that gives up when a connect attempt fails
CommandConnectFailedEndsTask(t) ==
    /\ cmdTask[t].pc = "connecting"
    /\ ~cmdTask[t].cancel
    /\ command_ws' = None
    /\ cmdTask' = [cmdTask EXCEPT ![t].pc = "done"]
    /\ UNCHANGED <<running, event_ws, command_task, event_task,
                   pending_requests, event_queue, evtTask, dpc, dws, dsnap,
                   req, cmd_log, evn, enull, got, gpc, gret, api, planner,
                   status, bridge, training, agent, finder, bfs, slicer,
                   codec>>

\* lines 64, 72-79: websockets.connect raises
CommandConnectFailed(t) ==
    /\ cmdTask[t].pc = "connecting"
    /\ ~cmdTask[t].cancel
    /\ command_ws' = None
    /\ cmdTask' = [cmdTask EXCEPT ![t].pc = AfterFinally]
    /\ UNCHANGED <<running, event_ws, command_task, event_task,
                   pending_requests, event_queue, evtTask, dpc, dws, dsnap,
                   req, cmd_log, evn, enull, got, gpc, gret, api, planner,
                   status, bridge, training, agent, finder, bfs, slicer,
                   codec>>

\* the peer closes or the network breaks the socket of task t, or the closing
\* handshake started by disconnect() completes
CommandSocketClosed(t) ==
    /\ cmdTask[t].sock \in {"open", "closing"}
    /\ cmdTask' = [cmdTask EXCEPT ![t].sock = "closed"]
    /\ req' = FailSends(t)
    /\ dpc' = CloseAwaited("close_cmd", "cmd_closed", t)
    /\ UNCHANGED <<running, command_ws, event_ws, command_task, event_task,
                   pending_requests, event_queue, evtTask, dws, dsnap,
                   cmd_log, evn, enull, got, gpc, gret, api, planner, status,
                   bridge, training, agent, finder, bfs, slicer, codec>>

\* lines 105, 70-79: the async for ends on a closed socket
CommandReadEnd(t) ==
    /\ cmdTask[t].pc = "reading"
    /\ cmdTask[t].sock = "closed"
    /\ ~cmdTask[t].cancel
    /\ command_ws' = None
    /\ cmdTask' = [cmdTask EXCEPT ![t].pc = AfterFinally, ![t].sock = "none"]
    /\ UNCHANGED <<running, event_ws, command_task, event_task,
                   pending_requests, event_queue, evtTask, dpc, dws, dsnap,
                   req, cmd_log, evn, enull, got, gpc, gret, api, planner,
                   status, bridge, training, agent, finder, bfs, slicer,
                   codec>>

\* the CancelledError of line 49 reaches the task at its suspension point:
\* before the first step and in the sleep of line 79 it ends the task
\* outright; in websockets.connect (line 64) it runs the finally; in the
\* handler (line 68) it makes the async with close the socket and wait for
\* that; a second one, in that wait, runs the finally at once
CommandCancelled(t) ==
    /\ cmdTask[t].cancel
    /\ cmdTask[t].pc \in {"created", "sleeping", "connecting", "reading", "exiting"}
    /\ cmdTask' = [cmdTask EXCEPT ![t] =
                      IF cmdTask[t].pc = "reading"
                      THEN [pc |-> "exiting",
                            sock |-> IF @.sock = "open" THEN "closing" ELSE @.sock,
                            cancel |-> FALSE]
                      ELSE [pc |-> "done", sock |-> "none", cancel |-> FALSE]]
    /\ command_ws' = IF cmdTask[t].pc \in {"connecting", "exiting"} THEN None ELSE command_ws
    /\ req' = IF cmdTask[t].pc = "exiting" THEN FailSends(t) ELSE req
    /\ dpc' = IF cmdTask[t].pc = "exiting"
              THEN CloseAwaited("close_cmd", "cmd_closed", t) ELSE dpc
    /\ UNCHANGED <<running, event_ws, command_task, event_task,
                   pending_requests, event_queue, evtTask, dws, dsnap,
                   cmd_log, evn, enull, got, gpc, gret, api, planner, status,
                   bridge, training, agent, finder, bfs, slicer, codec>>

\* lines 64, 74-75: the socket of the cancelled task is closed, the async with
\* is left, the finally runs and the CancelledError ends the task
CommandExit(t) ==
    /\ cmdTask[t].pc = "exiting"
    /\ cmdTask[t].sock = "closed"
    /\ ~cmdTask[t].cancel
    /\ command_ws' = None
    /\ cmdTask' = [cmdTask EXCEPT ![t].pc = "done", ![t].sock = "none"]
    /\ UNCHANGED <<running, event_ws, command_task, event_task,
                   pending_requests, event_queue, evtTask, dpc, dws, dsnap,
                   req, cmd_log, evn, enull, got, gpc, gret, api, planner,
                   status, bridge, training, agent, finder, bfs, slicer,
                   codec>>

\* ---- _handle_command_messages ----

\* lines 115, 118, 120: the record logged for a frame that resolves nothing
Logged(f) == IF f.kind = "obj" THEN "warning" ELSE "error"

\* the frames the server may push: any malformed frame, any frame without an
\* id or with an id nobody generated, and any frame for a request it
\* received; send() writes the frame to the transport and then waits for the
\* write buffer (line 161), so the server can have a request whose send()
\* has not returned
ServerMaySend(f) ==
    f.requestId \in Ids =>
        req[f.requestId].sent \/ req[f.requestId].pc = "sending"

\* a handler without the try of line 106: the error of a frame that cannot be
\* handled leaves the async for and ends the connection
HandleCommandMessageRaises(t, f) ==
    /\ cmdTask[t].pc = "reading"
    /\ cmdTask[t].sock \in {"open", "closing"}
    /\ ~cmdTask[t].cancel
    /\ ServerMaySend(f)
    /\ IF f.kind = "obj" /\ Lookup(f.requestId) # None
       THEN /\ pending_requests' = Pop(pending_requests, Lookup(f.requestId))
            /\ req' = SetResult(req, Lookup(f.requestId), f)
            /\ UNCHANGED <<cmd_log, cmdTask, command_ws>>
       ELSE IF f.kind = "obj"
       THEN /\ cmd_log' = Logged(f)
            /\ UNCHANGED <<pending_requests, req, cmdTask, command_ws>>
       ELSE /\ cmd_log' = Logged(f)
            /\ cmdTask' = [cmdTask EXCEPT ![t].pc = AfterFinally, ![t].sock = "closed"]
            /\ command_ws' = None
            /\ UNCHANGED <<pending_requests, req>>
    /\ UNCHANGED <<running, event_ws, command_task, event_task, event_queue,
                   evtTask, dpc, dws, dsnap, evn, enull, got, gpc, gret, api,
                   planner, status, bridge, training, agent, finder, bfs,
                   slicer, codec>>

\* lines 105-120, one iteration of the async for
HandleCommandMessage(t, f) ==
    /\ cmdTask[t].pc = "reading"
    /\ cmdTask[t].sock \in {"open", "closing"}
    /\ ~cmdTask[t].cancel
    /\ ServerMaySend(f)
    /\ IF f.kind = "obj" /\ Lookup(f.requestId) # None
       THEN /\ pending_requests' = Pop(pending_requests, Lookup(f.requestId))
            /\ req' = SetResult(req, Lookup(f.requestId), f)
            /\ UNCHANGED cmd_log
       ELSE /\ cmd_log' = Logged(f)
            /\ UNCHANGED <<pending_requests, req>>
    /\ UNCHANGED <<running, command_ws, event_ws, command_task, event_task,
                   event_queue, cmdTask, evtTask, dpc, dws, dsnap, evn,
                   enull, got, gpc, gret, api, planner, status, bridge,
                   training, agent, finder, bfs, slicer, codec>>

\* ---- send_request ----

\* lines 145-161: the check, the id, the table entry and the start of send();
\* send() on a socket that is no longer open raises at once (lines 170-172)
SendRequest(r) ==
    /\ req[r].pc = "new"
    /\ r = Uuid4
    /\ IF NotConnected(command_ws)
       THEN /\ req' = [req EXCEPT ![r].pc = "done", ![r].outcome = "ConnectionError"]
            /\ UNCHANGED pending_requests
       ELSE IF command_ws # None /\ cmdTask[command_ws].sock = "open"
       THEN /\ req' = [req EXCEPT ![r].pc = "sending", ![r].fut = "pending",
                                  ![r].ws = command_ws]
            /\ pending_requests' = Insert(pending_requests, r)
       ELSE /\ req' = [req EXCEPT ![r].pc = "done", ![r].fut = "pending",
                                  ![r].ws = command_ws,
                                  ![r].outcome = "ConnectionClosed"]
            /\ pending_requests' = Pop(Insert(pending_requests, r), r)
    /\ UNCHANGED <<running, command_ws, event_ws, command_task, event_task,
                   event_queue, cmdTask, evtTask, dpc, dws, dsnap, cmd_log,
                   evn, enull, got, gpc, gret, api, planner, status, bridge,
                   training, agent, finder, bfs, slicer, codec>>

\* lines 161-164: send() returns, the frame is on the wire, wait_for starts
SendComplete(r) ==
    /\ req[r].pc = "sending"
    /\ req' = [req EXCEPT ![r].pc = "waiting", ![r].sent = TRUE]
    /\ UNCHANGED <<running, command_ws, event_ws, command_task, event_task,
                   pending_requests, event_queue, cmdTask, evtTask, dpc, dws,
                   dsnap, cmd_log, evn, enull, got, gpc, gret, api, planner,
                   status, bridge, training, agent, finder, bfs, slicer,
                   codec>>

\* lines 161, 170-172: send() raises because the socket was closed under it
SendFailed(r) ==
    /\ req[r].pc = "send_failing"
    /\ pending_requests' = Pop(pending_requests, r)
    /\ req' = [req EXCEPT ![r].pc = "done", ![r].outcome = "ConnectionClosed"]
    /\ UNCHANGED <<running, command_ws, event_ws, command_task, event_task,
                   event_queue, cmdTask, evtTask, dpc, dws, dsnap, cmd_log,
                   evn, enull, got, gpc, gret, api, planner, status, bridge,
                   training, agent, finder, bfs, slicer, codec>>

\* a timer that cancels the future although a response has resolved it
TimeoutFireAnyway(r) ==
    /\ req[r].pc = "waiting"
    /\ req[r].fut \in {"pending", "result"}
    /\ req' = [req EXCEPT ![r].pc = "timing_out", ![r].fut = "cancelled"]
    /\ UNCHANGED <<running, command_ws, event_ws, command_task, event_task,
                   pending_requests, event_queue, cmdTask, evtTask, dpc, dws,
                   dsnap, cmd_log, evn, enull, got, gpc, gret, api, planner,
                   status, bridge, training, agent, finder, bfs, slicer,
                   codec>>

\* line 164: the 30 s timer of wait_for fires and wait_for cancels the future
TimeoutFire(r) ==
    /\ req[r].pc = "waiting"
    /\ req[r].fut = "pending"
    /\ req' = [req EXCEPT ![r].pc = "timing_out", ![r].fut = "cancelled"]
    /\ UNCHANGED <<running, command_ws, event_ws, command_task, event_task,
                   pending_requests, event_queue, cmdTask, evtTask, dpc, dws,
                   dsnap, cmd_log, evn, enull, got, gpc, gret, api, planner,
                   status, bridge, training, agent, finder, bfs, slicer,
                   codec>>

\* lines 167-169: the caller resumes with asyncio.TimeoutError
TimeoutRaise(r) ==
    /\ req[r].pc = "timing_out"
    /\ pending_requests' = Pop(pending_requests, r)
    /\ req' = [req EXCEPT ![r].pc = "done", ![r].outcome = "timeout"]
    /\ UNCHANGED <<running, command_ws, event_ws, command_task, event_task,
                   event_queue, cmdTask, evtTask, dpc, dws, dsnap, cmd_log,
                   evn, enull, got, gpc, gret, api, planner, status, bridge,
                   training, agent, finder, bfs, slicer, codec>>

\* lines 164-165: the caller resumes with the result of the future
WaitReturn(r) ==
    /\ req[r].pc = "waiting"
    /\ req[r].fut = "result"
    /\ req' = [req EXCEPT ![r].pc = "done", ![r].outcome = "response"]
    /\ UNCHANGED <<running, command_ws, event_ws, command_task, event_task,
                   pending_requests, event_queue, cmdTask, evtTask, dpc, dws,
                   dsnap, cmd_log, evn, enull, got, gpc, gret, api, planner,
                   status, bridge, training, agent, finder, bfs, slicer,
                   codec>>

\* line 164: the caller resumes with the CancelledError of a future that
\* disconnect() cancelled; CancelledError is not an Exception, so neither
\* except clause runs
WaitCancelled(r) ==
    /\ req[r].pc = "waiting"
    /\ req[r].fut = "cancelled"
    /\ req' = [req EXCEPT ![r].pc = "done", ![r].outcome = "cancelled"]
    /\ UNCHANGED <<running, command_ws, event_ws, command_task, event_task,
                   pending_requests, event_queue, cmdTask, evtTask, dpc, dws,
                   dsnap, cmd_log, evn, enull, got, gpc, gret, api, planner,
                   status, bridge, training, agent, finder, bfs, slicer,
                   codec>>


\* ---- _maintain_event_connection ----

\* line 83: the while condition, on the first step of the task and after the
\* reconnect sleep of line 101
EventLoop(t) ==
    /\ evtTask[t].pc \in {"created", "sleeping"}
    /\ ~evtTask[t].cancel
    /\ evtTask' = [evtTask EXCEPT ![t].pc = IF running THEN "connecting" ELSE "done"]
    /\ UNCHANGED <<running, command_ws, event_ws, command_task, event_task,
                   pending_requests, event_queue, cmdTask, dpc, dws, dsnap,
                   req, cmd_log, evn, enull, got, gpc, gret, api, planner,
                   status, bridge, training, agent, finder, bfs, slicer,
                   codec>>

\* lines 86-90: websockets.connect succeeds
EventConnected(t) ==
    /\ evtTask[t].pc = "connecting"
    /\ ~evtTask[t].cancel
    /\ event_ws' = t
    /\ evtTask' = [evtTask EXCEPT ![t].pc = "reading", ![t].sock = "open"]
    /\ UNCHANGED <<running, command_ws, command_task, event_task,
                   pending_requests, event_queue, cmdTask, dpc, dws, dsnap,
                   req, cmd_log, evn, enull, got, gpc, gret, api, planner,
                   status, bridge, training, agent, finder, bfs, slicer,
                   codec>>

\* lines 86, 94-101: websockets.connect raises
EventConnectFailed(t) ==
    /\ evtTask[t].pc = "connecting"
    /\ ~evtTask[t].cancel
    /\ event_ws' = None
    /\ evtTask' = [evtTask EXCEPT ![t].pc = AfterFinally]
    /\ UNCHANGED <<running, command_ws, command_task, event_task,
                   pending_requests, event_queue, cmdTask, dpc, dws, dsnap,
                   req, cmd_log, evn, enull, got, gpc, gret, api, planner,
                   status, bridge, training, agent, finder, bfs, slicer,
                   codec>>

\* the peer closes or the network breaks the socket of task t, or the closing
\* handshake started by disconnect() completes
EventSocketClosed(t) ==
    /\ evtTask[t].sock \in {"open", "closing"}
    /\ evtTask' = [evtTask EXCEPT ![t].sock = "closed"]
    /\ dpc' = CloseAwaited("close_evt", "evt_closed", t)
    /\ UNCHANGED <<running, command_ws, event_ws, command_task, event_task,
                   pending_requests, event_queue, cmdTask, dws, dsnap, req,
                   cmd_log, evn, enull, got, gpc, gret, api, planner, status,
                   bridge, training, agent, finder, bfs, slicer, codec>>

\* a finally that resets the handle of the other channel as well
EventReadEndResetsBoth(t) ==
    /\ evtTask[t].pc = "reading"
    /\ evtTask[t].sock = "closed"
    /\ ~evtTask[t].cancel
    /\ event_ws' = None
    /\ command_ws' = None
    /\ evtTask' = [evtTask EXCEPT ![t].pc = AfterFinally, ![t].sock = "none"]
    /\ UNCHANGED <<running, command_task, event_task, pending_requests,
                   event_queue, cmdTask, dpc, dws, dsnap, req, cmd_log, evn,
                   enull, got, gpc, gret, api, planner, status, bridge,
                   training, agent, finder, bfs, slicer, codec>>

\* lines 124, 92-101: the async for ends on a closed socket
EventReadEnd(t) ==
    /\ evtTask[t].pc = "reading"
    /\ evtTask[t].sock = "closed"
    /\ ~evtTask[t].cancel
    /\ event_ws' = None
    /\ evtTask' = [evtTask EXCEPT ![t].pc = AfterFinally, ![t].sock = "none"]
    /\ UNCHANGED <<running, command_ws, command_task, event_task,
                   pending_requests, event_queue, cmdTask, dpc, dws, dsnap,
                   req, cmd_log, evn, enull, got, gpc, gret, api, planner,
                   status, bridge, training, agent, finder, bfs, slicer,
                   codec>>

\* the CancelledError of line 51 reaches the task at its suspension point
EventCancelled(t) ==
    /\ evtTask[t].cancel
    /\ evtTask[t].pc \in {"created", "sleeping", "connecting", "reading", "exiting"}
    /\ evtTask' = [evtTask EXCEPT ![t] =
                      IF evtTask[t].pc = "reading"
                      THEN [pc |-> "exiting",
                            sock |-> IF @.sock = "open" THEN "closing" ELSE @.sock,
                            cancel |-> FALSE]
                      ELSE [pc |-> "done", sock |-> "none", cancel |-> FALSE]]
    /\ event_ws' = IF evtTask[t].pc \in {"connecting", "exiting"} THEN None ELSE event_ws
    /\ dpc' = IF evtTask[t].pc = "exiting"
              THEN CloseAwaited("close_evt", "evt_closed", t) ELSE dpc
    /\ UNCHANGED <<running, command_ws, command_task, event_task,
                   pending_requests, event_queue, cmdTask, dws, dsnap, req,
                   cmd_log, evn, enull, got, gpc, gret, api, planner, status,
                   bridge, training, agent, finder, bfs, slicer, codec>>

\* lines 86, 96-97: the socket of the cancelled task is closed, the async with
\* is left, the finally runs and the CancelledError ends the task
EventExit(t) ==
    /\ evtTask[t].pc = "exiting"
    /\ evtTask[t].sock = "closed"
    /\ ~evtTask[t].cancel
    /\ event_ws' = None
    /\ evtTask' = [evtTask EXCEPT ![t].pc = "done", ![t].sock = "none"]
    /\ UNCHANGED <<running, command_ws, command_task, event_task,
                   pending_requests, event_queue, cmdTask, dpc, dws, dsnap,
                   req, cmd_log, evn, enull, got, gpc, gret, api, planner,
                   status, bridge, training, agent, finder, bfs, slicer,
                   codec>>

\* ---- _handle_event_messages ----

\* frames the event server can push: a JSON object, the JSON value null,
\* any other JSON value, text that is not JSON
EventFrames == {"json", "null", "nonobj", "bad"}

\* lines 124-132, one iteration of the async for: the evn+1-th frame of the
\* event server arrives; whatever json.loads decodes is queued (None for the
\* text null), text that is not JSON is logged and dropped
HandleEventMessage(t, kind) ==
    /\ evtTask[t].pc = "reading"
    /\ evtTask[t].sock \in {"open", "closing"}
    /\ ~evtTask[t].cancel
    /\ evn < MaxEvents
    /\ evn' = evn + 1
    /\ event_queue' = IF kind # "bad" THEN Put(event_queue, evn + 1) ELSE event_queue
    /\ enull' = IF kind = "null" THEN enull \cup {evn + 1} ELSE enull
    /\ UNCHANGED <<running, command_ws, event_ws, command_task, event_task,
                   pending_requests, cmdTask, evtTask, dpc, dws, dsnap, req,
                   cmd_log, got, gpc, gret, api, planner, status, bridge,
                   training, agent, finder, bfs, slicer, codec>>

\* ---- get_events ----

\* line 280: what the caller of get_events gets for a queued event, the
\* decoded value itself: None when the frame was the text null
Returned(e) == IF e \in enull THEN "None" ELSE "event"

\* lines 279-280: an event is queued, get() returns it without waiting;
\* otherwise the caller waits
GetEvents ==
    /\ gpc = "idle"
    /\ IF event_queue # <<>>
       THEN /\ got' = Append(got, Get(event_queue))
            /\ event_queue' = Tail(event_queue)
            /\ gpc' = "idle"
            /\ gret' = Returned(Get(event_queue))
       ELSE /\ gpc' = "waiting"
            /\ UNCHANGED <<got, event_queue, gret>>
    /\ UNCHANGED <<running, command_ws, event_ws, command_task, event_task,
                   pending_requests, cmdTask, evtTask, dpc, dws, dsnap, req,
                   cmd_log, evn, enull, api, planner, status, bridge,
                   training, agent, finder, bfs, slicer, codec>>

\* a get() that returns the first event and leaves it in the queue
GetEventsWakeKeeps ==
    /\ gpc = "waiting"
    /\ event_queue # <<>>
    /\ got' = Append(got, Get(event_queue))
    /\ gpc' = "idle"
    /\ gret' = Returned(Get(event_queue))
    /\ UNCHANGED <<running, command_ws, event_ws, command_task, event_task,
                   pending_requests, event_queue, cmdTask, evtTask, dpc, dws,
                   dsnap, req, cmd_log, evn, enull, api, planner, status,
                   bridge, training, agent, finder, bfs, slicer, codec>>

\* line 280: the waiting get() is woken by a put and returns the event
GetEventsWake ==
    /\ gpc = "waiting"
    /\ event_queue # <<>>
    /\ got' = Append(got, Get(event_queue))
    /\ event_queue' = Tail(event_queue)
    /\ gpc' = "idle"
    /\ gret' = Returned(Get(event_queue))
    /\ UNCHANGED <<running, command_ws, event_ws, command_task, event_task,
                   pending_requests, cmdTask, evtTask, dpc, dws, dsnap, req,
                   cmd_log, evn, enull, api, planner, status, bridge,
                   training, agent, finder, bfs, slicer, codec>>

\* a get_events that lets the TimeoutError of wait_for through
GetEventsTimeoutRaises ==
    /\ gpc = "waiting"
    /\ gpc' = "idle"
    /\ gret' = "TimeoutError"
    /\ UNCHANGED <<running, command_ws, event_ws, command_task, event_task,
                   pending_requests, event_queue, cmdTask, evtTask, dpc, dws,
                   dsnap, req, cmd_log, evn, enull, got, api, planner,
                   status, bridge, training, agent, finder, bfs, slicer,
                   codec>>

\* lines 281-282: the timeout passes, wait_for cancels the get(), which takes
\* nothing from the queue, and None is returned
GetEventsTimeout ==
    /\ gpc = "waiting"
    /\ gpc' = "idle"
    /\ gret' = "None"
    /\ UNCHANGED <<running, command_ws, event_ws, command_task, event_task,
                   pending_requests, event_queue, cmdTask, evtTask, dpc, dws,
                   dsnap, req, cmd_log, evn, enull, got, api, planner,
                   status, bridge, training, agent, finder, bfs, slicer,
                   codec>>

\* ---- disconnect() ----

\* task.cancel() of lines 48-51: a task that has finished ignores it
CancelTask(tasks, t) ==
    IF t # None /\ tasks[t].pc # "done"
    THEN [tasks EXCEPT ![t].cancel = TRUE]
    ELSE tasks

\* line 44: await self.command_ws.close()
CloseCommandWs ==
    /\ cmdTask' = [cmdTask EXCEPT ![command_ws].sock = IF @ = "open" THEN "closing" ELSE @]
    /\ dpc' = IF cmdTask[command_ws].sock = "closed" THEN "cmd_closed" ELSE "close_cmd"
    /\ dws' = command_ws
    /\ UNCHANGED <<evtTask, req, pending_requests>>

\* line 46: await self.event_ws.close()
CloseEventWs ==
    /\ evtTask' = [evtTask EXCEPT ![event_ws].sock = IF @ = "open" THEN "closing" ELSE @]
    /\ dpc' = IF evtTask[event_ws].sock = "closed" THEN "evt_closed" ELSE "close_evt"
    /\ dws' = event_ws
    /\ UNCHANGED <<cmdTask, req, pending_requests>>

\* lines 48-57: cancel both tasks, cancel the futures, clear the table, return
CancelAndClear ==
    /\ cmdTask' = CancelTask(cmdTask, command_task)
    /\ evtTask' = CancelTask(evtTask, event_task)
    /\ req' = CancelAll(req, pending_requests)
    /\ pending_requests' = Clear(pending_requests)
    /\ dpc' = "idle"
    /\ dws' = None
    /\ dsnap' = {}

\* lines 41-57, up to the first await, or to the return when there is no
\* socket to close
DisconnectCalled ==
    /\ dpc = "idle"
    /\ running' = FALSE
    /\ IF command_ws # None THEN CloseCommandWs /\ dsnap' = pending_requests
       ELSE IF event_ws # None THEN CloseEventWs /\ dsnap' = pending_requests
       ELSE CancelAndClear
    /\ UNCHANGED <<command_ws, event_ws, command_task, event_task,
                   event_queue, cmd_log, evn, enull, got, gpc, gret, api,
                   planner, bridge, training, agent, finder, bfs, slicer,
                   codec>>

\* lines 45-57: the command socket is closed, disconnect() goes on
DisconnectCommandClosed ==
    /\ dpc = "cmd_closed"
    /\ IF event_ws # None THEN CloseEventWs /\ UNCHANGED dsnap ELSE CancelAndClear
    /\ UNCHANGED <<running, command_ws, event_ws, command_task, event_task,
                   event_queue, cmd_log, evn, enull, got, gpc, gret, api,
                   planner, bridge, training, agent, finder, bfs, slicer,
                   codec>>

\* lines 48-57: the event socket is closed, disconnect() goes on and returns
DisconnectEventClosed ==
    /\ dpc = "evt_closed"
    /\ CancelAndClear
    /\ UNCHANGED <<running, command_ws, event_ws, command_task, event_task,
                   event_queue, cmd_log, evn, enull, got, gpc, gret, api,
                   planner, bridge, training, agent, finder, bfs, slicer,
                   codec>>

\* a disconnect() without line 41
DisconnectKeepsFlag ==
    /\ dpc = "idle"
    /\ IF command_ws # None THEN CloseCommandWs /\ dsnap' = pending_requests
       ELSE IF event_ws # None THEN CloseEventWs /\ dsnap' = pending_requests
       ELSE CancelAndClear
    /\ UNCHANGED <<running, command_ws, event_ws, command_task, event_task,
                   event_queue, cmd_log, evn, enull, got, gpc, gret, api,
                   planner, status, bridge, training, agent, finder, bfs,
                   slicer, codec>>

\* disconnect() called by a caller that emits nothing
Disconnect == DisconnectCalled /\ UNCHANGED status

DisconnectAfterCommandClose == DisconnectCommandClosed /\ UNCHANGED status

DisconnectAfterEventClose == DisconnectEventClosed /\ UNCHANGED status

\* ---- desktop_debugger: ApiWorkerThread._async_main ----

\* main.py line 89: emit(False) follows the return of disconnect() in the
\* same step; while disconnect() is suspended nothing is emitted
EmitAfterDisconnect == IF dpc' = "idle" THEN "False" ELSE status

\* main.py lines 61-66: a new client, connect(), emit(True)
WorkerStart ==
    /\ status = "none"
    /\ command_task = None
    /\ StartTasks
    /\ status' = "True"

\* main.py lines 73-89: the loop ends because stop() cleared the worker's
\* flag, or an exception ended the try, and the finally calls disconnect()
WorkerStop ==
    /\ status = "True"
    /\ running
    /\ DisconnectCalled
    /\ status' = EmitAfterDisconnect

\* main.py lines 88-89, when the command socket is closed
WorkerStopAfterCommandClose ==
    /\ DisconnectCommandClosed
    /\ status' = EmitAfterDisconnect

\* main.py lines 88-89, when the event socket is closed
WorkerStopAfterEventClose ==
    /\ DisconnectEventClosed
    /\ status' = EmitAfterDisconnect

\* ---- high-level API methods ----

Max(a, b) == IF a >= b THEN a ELSE b

Min(a, b) == IF a <= b THEN a ELSE b

\* a set_speed that only caps the speed
SpeedCapped(speed) == Min(3, speed)

\* line 238: the "speed" of the Global.SetSpeed payload
Speed(speed) == Max(0, Min(3, speed))

\* a set_priority that only caps the priority
PriorityCapped(priority) == Min(9, priority)

\* line 210: the "priority" of the Global.SetPriority payload
Priority(priority) == Max(1, Min(9, priority))

\* a response.get('success') without the default
SuccessOrNone(response) ==
    IF response.success = "absent" THEN "null" ELSE response.success

\* lines 197, 212, 240: response.get('success', False)
Success(response) ==
    IF response.success = "absent" THEN "false" ELSE response.success

\* models.py lines 101-116: DuplicantState.from_dict, with the defaults of
\* the keys the dict does not have
DuplicantStateFromDict(d) == [id |-> d.id, health |-> 100, stress |-> 0]

\* models.py lines 53-64: BuildingInfo.from_dict
BuildingInfoFromDict(b) == [id |-> b.id, enabled |-> FALSE, max_health |-> 100]

\* a from_dict that decodes the arrays from their last element to their first
FromDictReversed(data) ==
    IF data.timestamp = "invalid"
    THEN [error |-> "ValueError", duplicants |-> <<>>, buildings |-> <<>>]
    ELSE [error |-> "no",
          duplicants |-> [i \in 1..Len(data.duplicants) |->
              DuplicantStateFromDict(data.duplicants[Len(data.duplicants) + 1 - i])],
          buildings |-> [i \in 1..Len(data.buildings) |->
              BuildingInfoFromDict(data.buildings[Len(data.buildings) + 1 - i])]]

\* models.py lines 170-181: ColonyState.from_dict; datetime.fromisoformat
\* raises ValueError for a text that is not ISO 8601, and an absent array
\* is read as [] (data.get('duplicants', []))
FromDict(data) ==
    IF data.timestamp = "invalid"
    THEN [error |-> "ValueError", duplicants |-> <<>>, buildings |-> <<>>]
    ELSE [error |-> "no",
          duplicants |-> [i \in 1..Len(data.duplicants) |->
                             DuplicantStateFromDict(data.duplicants[i])],
          buildings |-> [i \in 1..Len(data.buildings) |->
                            BuildingInfoFromDict(data.buildings[i])]]

\* lines 149-161 as the API methods use them: send_request builds the frame
\* {requestId, action, payload} and writes it once; the method is suspended
\* in send_request until it returns or raises
Call(method, args, action, payload) ==
    /\ api.pc # "awaiting"
    /\ api' = [pc |-> "awaiting", method |-> method, args |-> args,
               sent |-> <<[action |-> action, payload |-> payload]>>,
               response |-> <<>>, ret |-> "none", state |-> NoState]
    /\ UNCHANGED <<running, command_ws, event_ws, command_task, event_task,
                   pending_requests, event_queue, cmdTask, evtTask, dpc, dws,
                   dsnap, req, cmd_log, evn, enull, got, gpc, gret, planner,
                   status, bridge, training, agent, finder, bfs, slicer,
                   codec>>

\* lines 176-178
GetState == Call("get_state", <<>>, "State.Get", EmptyDict)

\* lines 181-196
Build(building_id, cell_x, cell_y) ==
    Call("build", [building_id |-> building_id, cell_x |-> cell_x, cell_y |-> cell_y],
         "Global.Build",
         [buildingId |-> building_id, cell |-> [x |-> cell_x, y |-> cell_y]])

\* lines 206-211
SetPriority(cell_x, cell_y, priority) ==
    Call("set_priority", [cell_x |-> cell_x, cell_y |-> cell_y, priority |-> priority],
         "Global.SetPriority",
         [cell |-> [x |-> cell_x, y |-> cell_y], priority |-> Priority(priority)])

\* lines 227-239
SetSpeed(speed) ==
    Call("set_speed", [speed |-> speed], "Global.SetSpeed", [speed |-> Speed(speed)])

\* lines 242-244: set_speed(0)
Pause == Call("pause", <<>>, "Global.SetSpeed", [speed |-> Speed(0)])

\* lines 246-248: set_speed(1)
Resume == Call("resume", <<>>, "Global.SetSpeed", [speed |-> Speed(1)])

\* lines 197, 212, 240: send_request returns the response and the method
\* returns its "success"
ReturnSuccess(response) ==
    /\ api.pc = "awaiting"
    /\ api.method # "get_state"
    /\ api' = [api EXCEPT !.pc = "returned", !.response = response,
                          !.ret = Success(response)]
    /\ UNCHANGED <<running, command_ws, event_ws, command_task, event_task,
                   pending_requests, event_queue, cmdTask, evtTask, dpc, dws,
                   dsnap, req, cmd_log, evn, enull, got, gpc, gret, planner,
                   status, bridge, training, agent, finder, bfs, slicer,
                   codec>>

\* line 179: send_request returns the response and get_state decodes its
\* payload; the ValueError of from_dict leaves get_state
GetStateReturn(response) ==
    /\ api.pc = "awaiting"
    /\ api.method = "get_state"
    /\ LET state == FromDict(IF response.has_payload THEN response.payload
                                                     ELSE EmptyDict)
       IN api' = [api EXCEPT !.pc = IF state.error = "no" THEN "returned" ELSE "raised",
                             !.response = response,
                             !.ret = IF state.error = "no" THEN "ColonyState"
                                                           ELSE state.error,
                             !.state = state]
    /\ UNCHANGED <<running, command_ws, event_ws, command_task, event_task,
                   pending_requests, event_queue, cmdTask, evtTask, dpc, dws,
                   dsnap, req, cmd_log, evn, enull, got, gpc, gret, planner,
                   status, bridge, training, agent, finder, bfs, slicer,
                   codec>>

\* lines 146, 167-172: send_request raises (ConnectionError, TimeoutError,
\* the socket's exception) and so does the method
CallRaises ==
    /\ api.pc = "awaiting"
    /\ api' = [api EXCEPT !.pc = "raised", !.ret = "Exception"]
    /\ UNCHANGED <<running, command_ws, event_ws, command_task, event_task,
                   pending_requests, event_queue, cmdTask, evtTask, dpc, dws,
                   dsnap, req, cmd_log, evn, enull, got, gpc, gret, planner,
                   status, bridge, training, agent, finder, bfs, slicer,
                   codec>>

\* ---- Planner ----

\* planner.py line 38
Stressed(stress) == stress > 50

\* planner.py lines 36-39: one Assign step for every duplicant of every
\* world whose Stress is above 50
RECURSIVE RelaxSteps(_)
RelaxSteps(worlds) ==
    IF worlds = <<>>
    THEN <<>>
    ELSE [i \in 1..Len(SelectSeq(Head(worlds), Stressed)) |->
             [action |-> "Assign", params |-> [task |-> "relax"]]]
         \o RelaxSteps(Tail(worlds))

\* planner.py lines 24-41: the list create_plan returns
Plan(goals, game_state) ==
    (IF "achieve_self_sufficiency" \in goals
     THEN <<[action |-> "Build",
             params |-> [building_type |-> "farm_tile", x |-> 5, y |-> 5]],
            [action |-> "Build",
             params |-> [building_type |-> "oxygen_diffuser", x |-> 10, y |-> 10]],
            [action |-> "Research", params |-> [tech_name |-> "Advanced Farming"]]>>
     ELSE <<>>)
    \o (IF "explore_map" \in goals
        THEN <<[action |-> "Dig", params |-> [x |-> 20, y |-> 20]]>>
        ELSE <<>>)
    \o RelaxSteps(game_state)

\* planner.py lines 7-9: Planner(game_state)
NewPlanner(game_state) ==
    /\ planner.pc = "none"
    /\ planner' = [pc |-> "constructed", game_state |-> game_state,
                   goals |-> {}, plan |-> <<>>]
    /\ UNCHANGED <<running, command_ws, event_ws, command_task, event_task,
                   pending_requests, event_queue, cmdTask, evtTask, dpc, dws,
                   dsnap, req, cmd_log, evn, enull, got, gpc, gret, api,
                   status, bridge, training, agent, finder, bfs, slicer,
                   codec>>

\* planner.py lines 11-17
SetGoals(goals) ==
    /\ planner.pc # "none"
    /\ planner' = [planner EXCEPT !.pc = "constructed", !.goals = goals,
                                  !.plan = <<>>]
    /\ UNCHANGED <<running, command_ws, event_ws, command_task, event_task,
                   pending_requests, event_queue, cmdTask, evtTask, dpc, dws,
                   dsnap, req, cmd_log, evn, enull, got, gpc, gret, api,
                   status, bridge, training, agent, finder, bfs, slicer,
                   codec>>

\* planner.py lines 19-41
CreatePlan ==
    /\ planner.pc # "none"
    /\ planner' = [planner EXCEPT !.pc = "planned",
                                  !.plan = Plan(planner.goals, planner.game_state)]
    /\ UNCHANGED <<running, command_ws, event_ws, command_task, event_task,
                   pending_requests, event_queue, cmdTask, evtTask, dpc, dws,
                   dsnap, req, cmd_log, evn, enull, got, gpc, gret, api,
                   status, bridge, training, agent, finder, bfs, slicer,
                   codec>>

\* ---- desktop_debugger: the command bridge of ApiWorkerThread ----

\* main.py lines 51-57 and 59-69: run() sets the worker's flag and starts
\* _async_main, which enters its loop
BridgeRun ==
    /\ bridge.pc = "none"
    /\ bridge' = [bridge EXCEPT !.pc = "looping", !.running = TRUE]
    /\ UNCHANGED <<running, command_ws, event_ws, command_task, event_task,
                   pending_requests, event_queue, cmdTask, evtTask, dpc, dws,
                   dsnap, req, cmd_log, evn, enull, got, gpc, gret, api,
                   planner, status, training, agent, finder, bfs, slicer,
                   codec>>

\* main.py lines 143-152: the GUI thread puts the next command on the queue
SendCommand ==
    /\ \E c \in Commands :
          /\ bridge.command[c] = "none"
          /\ \A d \in Commands : d < c => bridge.command[d] # "none"
          /\ bridge' = [bridge EXCEPT !.queue = Append(@, c),
                                      !.command[c] = "queued"]
    /\ UNCHANGED <<running, command_ws, event_ws, command_task, event_task,
                   pending_requests, event_queue, cmdTask, evtTask, dpc, dws,
                   dsnap, req, cmd_log, evn, enull, got, gpc, gret, api,
                   planner, status, training, agent, finder, bfs, slicer,
                   codec>>

\* main.py lines 73-81: one iteration of the loop that finds a command:
\* get_nowait() and a new _process_command task; an iteration on an empty
\* queue changes nothing
BridgeTake ==
    /\ bridge.pc = "looping"
    /\ bridge.running
    /\ bridge.queue # <<>>
    /\ bridge' = [bridge EXCEPT !.queue = Tail(@),
                                !.taken = Append(@, Head(bridge.queue)),
                                !.command[Head(bridge.queue)] = "inflight"]
    /\ UNCHANGED <<running, command_ws, event_ws, command_task, event_task,
                   pending_requests, event_queue, cmdTask, evtTask, dpc, dws,
                   dsnap, req, cmd_log, evn, enull, got, gpc, gret, api,
                   planner, status, training, agent, finder, bfs, slicer,
                   codec>>

\* main.py lines 108-137: the client call returns and response_received is
\* emitted
ProcessReturn(c) ==
    /\ bridge.pc = "looping"
    /\ bridge.command[c] = "inflight"
    /\ bridge' = [bridge EXCEPT !.command[c] = "response"]
    /\ UNCHANGED <<running, command_ws, event_ws, command_task, event_task,
                   pending_requests, event_queue, cmdTask, evtTask, dpc, dws,
                   dsnap, req, cmd_log, evn, enull, got, gpc, gret, api,
                   planner, status, training, agent, finder, bfs, slicer,
                   codec>>

\* main.py lines 139-141: the client call raises an Exception and
\* error_occurred is emitted
ProcessRaise(c) ==
    /\ bridge.pc = "looping"
    /\ bridge.command[c] = "inflight"
    /\ bridge' = [bridge EXCEPT !.command[c] = "error"]
    /\ UNCHANGED <<running, command_ws, event_ws, command_task, event_task,
                   pending_requests, event_queue, cmdTask, evtTask, dpc, dws,
                   dsnap, req, cmd_log, evn, enull, got, gpc, gret, api,
                   planner, status, training, agent, finder, bfs, slicer,
                   codec>>

\* main.py lines 154-156: stop(), called by the GUI thread
BridgeStop ==
    /\ bridge.pc = "looping"
    /\ bridge.running
    /\ bridge' = [bridge EXCEPT !.running = FALSE]
    /\ UNCHANGED <<running, command_ws, event_ws, command_task, event_task,
                   pending_requests, event_queue, cmdTask, evtTask, dpc, dws,
                   dsnap, req, cmd_log, evn, enull, got, gpc, gret, api,
                   planner, status, training, agent, finder, bfs, slicer,
                   codec>>

\* main.py lines 73, 83-89 and 57: the loop sees the cleared flag,
\* _async_main disconnects and returns, and run_until_complete returns with
\* it: the queue is not read again, and a _process_command task that is
\* still suspended is never resumed, or is resumed with the CancelledError of
\* the future disconnect() cancelled, which is not an Exception
BridgeExit ==
    /\ bridge.pc = "looping"
    /\ ~bridge.running
    /\ bridge' = [bridge EXCEPT !.pc = "exited"]
    /\ UNCHANGED <<running, command_ws, event_ws, command_task, event_task,
                   pending_requests, event_queue, cmdTask, evtTask, dpc, dws,
                   dsnap, req, cmd_log, evn, enull, got, gpc, gret, api,
                   planner, status, training, agent, finder, bfs, slicer,
                   codec>>

\* ---- training_engine: TrainingLoop ----

\* main_loop.py lines 177-190: _check_episode_done, called before the
\* counters of the step are updated
CheckEpisodeDone(t) ==
    \/ t.current_state = "empty"
    \/ t.current_episode_length >= 1000

\* main_loop.py lines 192-206: _end_episode
EndEpisode(t) ==
    [t EXCEPT !.episode_lengths = Append(@, t.current_episode_length),
              !.episode_num = @ + 1,
              !.current_episode_reward = 0,
              !.current_episode_length = 0]

\* main_loop.py lines 108-143: _training_step, with a reward function that
\* gives 1 for every step
TrainingStep(t) ==
    LET done == CheckEpisodeDone(t)
        counted == [t EXCEPT !.current_episode_reward = @ + 1,
                             !.current_episode_length = @ + 1,
                             !.step_num = @ + 1]
    IN IF done THEN EndEpisode(counted) ELSE counted

\* main_loop.py lines 91-106: _process_state_update; the first state is only
\* observed
ProcessStateUpdate(t, new_state) ==
    LET stored == [t EXCEPT !.previous_state = t.current_state,
                            !.current_state = new_state]
    IN IF stored.previous_state = "None" THEN stored ELSE TrainingStep(stored)

\* main_loop.py lines 66-72: run() up to the first get_events, with a GUI
\* that accepts the connection of line 59
TrainingRun ==
    /\ training.pc = "none"
    /\ training' = [training EXCEPT !.pc = "get_events", !.is_training = TRUE]
    /\ UNCHANGED <<running, command_ws, event_ws, command_task, event_task,
                   pending_requests, event_queue, cmdTask, evtTask, dpc, dws,
                   dsnap, req, cmd_log, evn, enull, got, gpc, gret, api,
                   planner, status, bridge, agent, finder, bfs, slicer,
                   codec>>

\* main_loop.py lines 76-79: get_events returns and a State.Update is
\* processed
TrainingEvent(event) ==
    /\ training.pc = "get_events"
    /\ event \in {"update_dups", "update_empty"} => training.episode_num < MaxEpisodes
    /\ training' =
          [(CASE event = "update_dups" -> ProcessStateUpdate(training, "dups")
              [] event = "update_empty" -> ProcessStateUpdate(training, "empty")
              [] OTHER -> training) EXCEPT !.pc = "check_gui"]
    /\ UNCHANGED <<running, command_ws, event_ws, command_task, event_task,
                   pending_requests, event_queue, cmdTask, evtTask, dpc, dws,
                   dsnap, req, cmd_log, evn, enull, got, gpc, gret, api,
                   planner, status, bridge, agent, finder, bfs, slicer,
                   codec>>

\* main_loop.py lines 246-255: _handle_gui_command
HandleGuiCommand(t, cmd_type) ==
    [t EXCEPT !.is_training = (cmd_type = "resume"), !.last = cmd_type]

\* main_loop.py lines 231-244 and 74: recv() returns the first k commands
\* the GUI has written; one command is decoded and handled, more than one
\* is not a JSON text and is dropped by the except of line 243; then the
\* while condition is tested
CheckGuiCommands(k) ==
    /\ training.pc = "check_gui"
    /\ k <= Len(training.gui)
    /\ k = 0 => training.gui = <<>>
    /\ LET received == [training EXCEPT !.gui = SubSeq(@, k + 1, Len(@))]
           handled == IF k = 1 THEN HandleGuiCommand(received, training.gui[1])
                               ELSE received
       IN training' = [handled EXCEPT !.pc = IF handled.is_training
                                             THEN "get_events" ELSE "cleanup"]
    /\ UNCHANGED <<running, command_ws, event_ws, command_task, event_task,
                   pending_requests, event_queue, cmdTask, evtTask, dpc, dws,
                   dsnap, req, cmd_log, evn, enull, got, gpc, gret, api,
                   planner, status, bridge, agent, finder, bfs, slicer,
                   codec>>

\* main_loop.py lines 88-89 and 288-296: cleanup() and the end of run()
TrainingCleanup ==
    /\ training.pc = "cleanup"
    /\ training' = [training EXCEPT !.pc = "ended"]
    /\ UNCHANGED <<running, command_ws, event_ws, command_task, event_task,
                   pending_requests, event_queue, cmdTask, evtTask, dpc, dws,
                   dsnap, req, cmd_log, evn, enull, got, gpc, gret, api,
                   planner, status, bridge, agent, finder, bfs, slicer,
                   codec>>

\* the GUI writes a command to its socket
GuiSend(cmd_type) ==
    /\ training.pc \notin {"none", "ended"}
    /\ training.sent < MaxGuiCommands
    /\ training' = [training EXCEPT !.gui = Append(@, cmd_type), !.sent = @ + 1]
    /\ UNCHANGED <<running, command_ws, event_ws, command_task, event_task,
                   pending_requests, event_queue, cmdTask, evtTask, dpc, dws,
                   dsnap, req, cmd_log, evn, enull, got, gpc, gret, api,
                   planner, status, bridge, agent, finder, bfs, slicer,
                   codec>>

\* ---- training_engine: RuleBasedAgent ----

RECURSIVE Sum(_)
Sum(s) == IF s = <<>> THEN 0 ELSE Head(s) + Sum(Tail(s))

\* list.sort(key=lambda x: x[1]): ascending by value, equal values keep
\* their order
RECURSIVE SortByValue(_)
SortByValue(q) ==
    IF q = <<>> THEN <<>>
    ELSE LET rest == SortByValue(Tail(q))
             before == SelectSeq(rest, LAMBDA e : e[2] < Head(q)[2])
             after == SelectSeq(rest, LAMBDA e : e[2] >= Head(q)[2])
         IN before \o <<Head(q)>> \o after

\* rule_based_agent.py lines 21-47: _update_priorities
UpdatePriorities(state) ==
    LET avg_oxygen == IF state.duplicants # <<>>
                      THEN Sum(state.duplicants) \div Len(state.duplicants)
                      ELSE 100
        duplicant_count == Len(state.duplicants)
        oxygen == IF avg_oxygen < 80 THEN << <<"oxygen", avg_oxygen>> >> ELSE <<>>
        food == IF duplicant_count > 0 /\ state.food < duplicant_count * 1000
                THEN << <<"food", state.food>> >> ELSE <<>>
        power == IF state.generators < 2
                 THEN << <<"power", state.generators>> >> ELSE <<>>
        water == IF state.water < 1000 THEN << <<"water", state.water>> >> ELSE <<>>
    IN SortByValue(oxygen \o food \o power \o water)

\* rule_based_agent.py lines 72-115: _get_action_for_need, without the
\* random cell of the payload
GetActionForNeed(need) ==
    CASE need \in {"oxygen", "food", "power"} -> "Global.Build"
      [] need = "water" -> "Global.Dig"
      [] OTHER -> "noop"

\* rule_based_agent.py line 67 with a cooldown of 9
SetCooldownShort(cooldown, need) ==
    [n \in DOMAIN cooldown \cup {need} |-> IF n = need THEN 9 ELSE cooldown[n]]

\* rule_based_agent.py line 67: self.action_cooldown[need] = 10
SetCooldown(cooldown, need) ==
    [n \in DOMAIN cooldown \cup {need} |-> IF n = need THEN 10 ELSE cooldown[n]]

\* rule_based_agent.py lines 49-70: decide_action, giving the agent after
\* the call with the returned action in ret
DecideAction(a) ==
    IF a.last_state = "None" \/ a.priority_queue = <<>>
    THEN [a EXCEPT !.ret = "noop"]
    ELSE LET need == a.priority_queue[1][1]
         IN IF need \in DOMAIN a.action_cooldown /\ a.action_cooldown[need] > 0
            THEN [a EXCEPT !.action_cooldown[need] = @ - 1, !.ret = "noop"]
            ELSE LET action == GetActionForNeed(need)
                 IN [a EXCEPT !.action_cooldown =
                                   IF action # "noop" THEN SetCooldown(@, need) ELSE @,
                              !.ret = action]

\* the count of calls for the need on top, after a call that returned ret
Waited(a, ret) ==
    IF a.last_state = "None" \/ a.priority_queue = <<>> THEN a.waited
    ELSE LET need == a.priority_queue[1][1]
         IN [a.waited EXCEPT ![need] = IF ret # "noop" THEN 0
                                        ELSE IF @ = -1 THEN -1 ELSE Min(@ + 1, 11)]

\* main_loop.py line 111 and rule_based_agent.py lines 16-19: observe
AgentObserve(state) ==
    /\ agent.pc = "observe"
    /\ agent' = [agent EXCEPT !.pc = "decide", !.last_state = "state",
                              !.priority_queue = UpdatePriorities(state)]
    /\ UNCHANGED <<running, command_ws, event_ws, command_task, event_task,
                   pending_requests, event_queue, cmdTask, evtTask, dpc, dws,
                   dsnap, req, cmd_log, evn, enull, got, gpc, gret, api,
                   planner, status, bridge, training, finder, bfs, slicer,
                   codec>>

\* main_loop.py line 114: decide_action
AgentDecide ==
    /\ agent.pc = "decide"
    /\ LET decided == DecideAction(agent)
           need == IF agent.priority_queue = <<>> THEN "none"
                   ELSE agent.priority_queue[1][1]
       IN agent' = [decided EXCEPT !.pc = "observe",
                                   !.waited = Waited(agent, decided.ret),
                                   !.top = need,
                                   !.before = IF need = "none" THEN -1
                                              ELSE agent.waited[need]]
    /\ UNCHANGED <<running, command_ws, event_ws, command_task, event_task,
                   pending_requests, event_queue, cmdTask, evtTask, dpc, dws,
                   dsnap, req, cmd_log, evn, enull, got, gpc, gret, api,
                   planner, status, bridge, training, finder, bfs, slicer,
                   codec>>

\* main_loop.py line 206 and base_agent.py lines 54-58: reset at the end of
\* an episode
AgentReset ==
    /\ agent.pc = "observe"
    /\ agent.last_state = "state"
    /\ agent' = [agent EXCEPT !.last_state = "None"]
    /\ UNCHANGED <<running, command_ws, event_ws, command_task, event_task,
                   pending_requests, event_queue, cmdTask, evtTask, dpc, dws,
                   dsnap, req, cmd_log, evn, enull, got, gpc, gret, api,
                   planner, status, bridge, training, finder, bfs, slicer,
                   codec>>

\* ---- oxygen_not_included_ai: TaskDecomposer ----

\* task_decomposer.py line 138
Directions == << <<0, 1>>, <<1, 0>>, <<0, -1>>, <<-1, 0>> >>

\* task_decomposer.py lines 133-136: the locals before the loop
BfsStart(start_x, start_y, width, height, grid, max_cells) ==
    [pc |-> "loop", start_x |-> start_x, start_y |-> start_y,
     width |-> width, height |-> height, grid |-> grid, max_cells |-> max_cells,
     visited |-> {<<start_x, start_y>>}, queue |-> << <<start_x, start_y>> >>,
     explored |-> 1, ret |-> "none"]

\* task_decomposer.py lines 143-150: one direction from the cell (x, y)
BfsVisit(b, x, y, d) ==
    LET nx == x + d[1]
        ny == y + d[2]
    IN IF /\ 0 <= nx /\ nx < b.grid.shape[2] /\ 0 <= ny /\ ny < b.grid.shape[1]
          /\ <<nx, ny>> \notin b.visited
          /\ b.start_x <= nx /\ nx < b.start_x + b.width
          /\ b.start_y <= ny /\ ny < b.start_y + b.height
       THEN [b EXCEPT !.visited = @ \cup {<<nx, ny>>},
                      !.queue = Append(@, <<nx, ny>>),
                      !.explored = @ + 1,
                      !.ret = IF b.explored + 1 > b.max_cells THEN "False" ELSE "none"]
       ELSE b

\* task_decomposer.py lines 142-150: the directions from i on, up to a return
RECURSIVE BfsDirections(_, _, _, _)
BfsDirections(b, x, y, i) ==
    IF i > Len(Directions) \/ b.ret # "none" THEN b
    ELSE BfsDirections(BfsVisit(b, x, y, Directions[i]), x, y, i + 1)

\* task_decomposer.py lines 140-151: one test of the while condition and,
\* with a cell in the queue, one pass of the loop body
BfsLoop(b) ==
    IF b.queue = <<>> THEN [b EXCEPT !.ret = "True"]
    ELSE BfsDirections([b EXCEPT !.queue = Tail(@)], Head(b.queue)[1], Head(b.queue)[2], 1)

\* task_decomposer.py lines 140-151: the loop up to its return
RECURSIVE BfsRun(_)
BfsRun(b) == IF b.ret # "none" THEN b.ret ELSE BfsRun(BfsLoop(b))

\* task_decomposer.py lines 125-151: _validate_space_bfs
ValidateSpaceBfs(start_x, start_y, width, height, grid, max_cells) ==
    IF start_x + width > grid.shape[2] \/ start_y + height > grid.shape[1]
    THEN "False"
    ELSE BfsRun(BfsStart(start_x, start_y, width, height, grid, max_cells))

\* _prepare_space without the validation of lines 171-173
PrepareSpaceUnvalidated(start_x, start_y, width, height, grid) ==
    IF ~(/\ 0 <= start_x /\ start_x + width <= grid.shape[2]
         /\ 0 <= start_y /\ start_y + height <= grid.shape[1])
    THEN "None"
    ELSE IF \E i \in 0..width-1, j \in 0..height-1 :
               grid.cell[<<start_y + j, start_x + i>>] # 0
    THEN "None"
    ELSE "[]"

\* task_decomposer.py lines 153-175: _prepare_space, "None" or the empty
\* list of actions
PrepareSpace(start_x, start_y, width, height, grid) ==
    IF ~(/\ 0 <= start_x /\ start_x + width <= grid.shape[2]
         /\ 0 <= start_y /\ start_y + height <= grid.shape[1])
    THEN "None"
    ELSE IF \E i \in 0..width-1, j \in 0..height-1 :
               grid.cell[<<start_y + j, start_x + i>>] # 0
    THEN "None"
    ELSE IF ValidateSpaceBfs(start_x, start_y, width, height, grid, 100) # "True"
    THEN "None"
    ELSE "[]"

\* task_decomposer.py lines 117-123: the two loops from (x, y) on
RECURSIVE FindFrom(_, _, _, _, _)
FindFrom(x, y, width, height, grid) ==
    IF x >= grid.shape[2] - width + 1
    THEN [location |-> NoLocation, prep_actions |-> "[]"]
    ELSE IF y >= grid.shape[1] - height + 1
    THEN FindFrom(x + 1, 0, width, height, grid)
    ELSE IF PrepareSpace(x, y, width, height, grid) # "None"
    THEN [location |-> <<x, y>>, prep_actions |-> PrepareSpace(x, y, width, height, grid)]
    ELSE FindFrom(x, y + 1, width, height, grid)

\* task_decomposer.py lines 110-123: _find_suitable_location_2d
FindSuitableLocation2d(width, height, grid) == FindFrom(0, 0, width, height, grid)

\* a call of _find_suitable_location_2d
FindCall(width, height, grid) ==
    /\ finder.pc = "idle"
    /\ LET found == FindSuitableLocation2d(width, height, grid)
       IN finder' = [pc |-> "returned", width |-> width, height |-> height,
                     grid |-> grid, location |-> found.location,
                     prep_actions |-> found.prep_actions]
    /\ UNCHANGED <<running, command_ws, event_ws, command_task, event_task,
                   pending_requests, event_queue, cmdTask, evtTask, dpc, dws,
                   dsnap, req, cmd_log, evn, enull, got, gpc, gret, api,
                   planner, status, bridge, training, agent, bfs, slicer,
                   codec>>

\* the caller takes the result
FindDone ==
    /\ finder.pc = "returned"
    /\ finder' = NoFinder
    /\ UNCHANGED <<running, command_ws, event_ws, command_task, event_task,
                   pending_requests, event_queue, cmdTask, evtTask, dpc, dws,
                   dsnap, req, cmd_log, evn, enull, got, gpc, gret, api,
                   planner, status, bridge, training, agent, bfs, slicer,
                   codec>>

\* task_decomposer.py lines 130-136: a call of _validate_space_bfs up to
\* its loop, or its return for a region past the right or bottom edge
ValidateCall(start_x, start_y, width, height, grid, max_cells) ==
    /\ bfs.pc = "idle"
    /\ start_x < grid.shape[2] /\ start_y < grid.shape[1]
    /\ LET b == BfsStart(start_x, start_y, width, height, grid, max_cells)
       IN bfs' = IF start_x + width > grid.shape[2] \/ start_y + height > grid.shape[1]
                 THEN [b EXCEPT !.pc = "returned", !.visited = {}, !.queue = <<>>,
                                !.explored = 0, !.ret = "False"]
                 ELSE b
    /\ UNCHANGED <<running, command_ws, event_ws, command_task, event_task,
                   pending_requests, event_queue, cmdTask, evtTask, dpc, dws,
                   dsnap, req, cmd_log, evn, enull, got, gpc, gret, api,
                   planner, status, bridge, training, agent, finder, slicer,
                   codec>>

\* task_decomposer.py lines 140-151: one pass of the loop
ValidateLoop ==
    /\ bfs.pc = "loop"
    /\ LET b == BfsLoop(bfs)
       IN bfs' = [b EXCEPT !.pc = IF b.ret = "none" THEN "loop" ELSE "returned"]
    /\ UNCHANGED <<running, command_ws, event_ws, command_task, event_task,
                   pending_requests, event_queue, cmdTask, evtTask, dpc, dws,
                   dsnap, req, cmd_log, evn, enull, got, gpc, gret, api,
                   planner, status, bridge, training, agent, finder, slicer,
                   codec>>

\* the caller takes the result
ValidateDone ==
    /\ bfs.pc = "returned"
    /\ bfs' = NoBfs
    /\ UNCHANGED <<running, command_ws, event_ws, command_task, event_task,
                   pending_requests, event_queue, cmdTask, evtTask, dpc, dws,
                   dsnap, req, cmd_log, evn, enull, got, gpc, gret, api,
                   planner, status, bridge, training, agent, finder, slicer,
                   codec>>

\* ---- oxygen_not_included_ai: ContextSlicer and the coordinator ----

\* context_slicer.py lines 27-38: the local dictionary context
SlicedContext(task, full_game_state) ==
    LET base == [cycle |-> full_game_state.cycle,
                 duplicants |-> full_game_state.duplicants]
    IN IF task.action = "Build"
       THEN [cycle |-> base.cycle, duplicants |-> base.duplicants,
             resources |-> full_game_state.resources, map_slice |-> "..."]
       ELSE IF task.action = "Research"
       THEN [cycle |-> base.cycle, duplicants |-> base.duplicants,
             research_progress |-> full_game_state.research_progress]
       ELSE base

\* context_slicer.py lines 11-38: get_context_for_task; the function ends
\* after line 38 without a return statement
GetContextForTask(task, full_game_state) ==
    IF task = <<>> \/ "action" \notin DOMAIN task
    THEN [ret |-> "dict", context |-> <<>>]
    ELSE [ret |-> "None", context |-> SlicedContext(task, full_game_state)]

\* task_decomposer.py lines 53-68 with line 96: _handle_build_task for a
\* context without a grid
HandleBuildTask(task, ret) ==
    IF "building_type" \notin DOMAIN task.params
    THEN [raised |-> "none", actions |-> <<>>]
    ELSE IF ret = "None"
    THEN [raised |-> "AttributeError", actions |-> <<>>]
    ELSE [raised |-> "none", actions |-> <<>>]

\* task_decomposer.py lines 20-51: decompose_task without a model or an LLM;
\* Action.parse_obj drops a task without an action
DecomposeTask(task, ret) ==
    IF "action" \in DOMAIN task /\ task.action = "Build"
    THEN HandleBuildTask(task, ret)
    ELSE IF "action" \in DOMAIN task /\ "params" \in DOMAIN task
    THEN [raised |-> "none", actions |-> <<task>>]
    ELSE [raised |-> "none", actions |-> <<>>]

\* main.py line 52: ContextSlicer(game_state)
NewSlicer(game_state) ==
    /\ slicer.pc \in {"none", "decomposed"}
    /\ slicer' = [NoSlicer EXCEPT !.pc = "ready", !.full_game_state = game_state]
    /\ UNCHANGED <<running, command_ws, event_ws, command_task, event_task,
                   pending_requests, event_queue, cmdTask, evtTask, dpc, dws,
                   dsnap, req, cmd_log, evn, enull, got, gpc, gret, api,
                   planner, status, bridge, training, agent, finder, bfs,
                   codec>>

\* main.py line 59: get_context_for_task(task)
GetContext(task) ==
    /\ slicer.pc = "ready"
    /\ LET returned == GetContextForTask(task, slicer.full_game_state)
       IN slicer' = [slicer EXCEPT !.pc = "sliced", !.task = task,
                                   !.ret = returned.ret,
                                   !.context = returned.context]
    /\ UNCHANGED <<running, command_ws, event_ws, command_task, event_task,
                   pending_requests, event_queue, cmdTask, evtTask, dpc, dws,
                   dsnap, req, cmd_log, evn, enull, got, gpc, gret, api,
                   planner, status, bridge, training, agent, finder, bfs,
                   codec>>

\* main.py line 62: decompose_task(task, context)
Decompose ==
    /\ slicer.pc = "sliced"
    /\ LET done == DecomposeTask(slicer.task, slicer.ret)
       IN slicer' = [slicer EXCEPT !.pc = "decomposed", !.raised = done.raised,
                                   !.actions = done.actions]
    /\ UNCHANGED <<running, command_ws, event_ws, command_task, event_task,
                   pending_requests, event_queue, cmdTask, evtTask, dpc, dws,
                   dsnap, req, cmd_log, evn, enull, got, gpc, gret, api,
                   planner, status, bridge, training, agent, finder, bfs,
                   codec>>

\* ---- oni_api_client: ColonyState.to_dict and from_dict ----

\* dict.get(key, default)
DictGet(data, key, default) == IF key \in DOMAIN data THEN data[key] ELSE default

\* datetime.isoformat: the microsecond is written only when it is not 0
IsoFormat(t) == IF t.microsecond = 0 THEN <<t.day>> ELSE <<t.day, t.microsecond>>

\* datetime.fromisoformat of such a text
FromIsoFormat(text) ==
    [day |-> text[1], microsecond |-> IF Len(text) >= 2 THEN text[2] ELSE 0]

\* models.py lines 199, 215, 242
Vector2ToDict(v) == [x |-> v.x, y |-> v.y]

\* models.py lines 196-209
DuplicantToDict(d) ==
    [id |-> d.id, name |-> d.name, position |-> Vector2ToDict(d.position),
     health |-> d.health, stress |-> d.stress, calories |-> d.calories,
     oxygen |-> d.oxygen, bladder |-> d.bladder, stamina |-> d.stamina,
     currentTask |-> d.current_task, skills |-> d.skills, traits |-> d.traits]

\* lines 212-221 with the key of the dataclass field, max_health
BuildingToDictFieldName(b) ==
    [id |-> b.id, name |-> b.name, position |-> Vector2ToDict(b.position),
     enabled |-> b.enabled, health |-> b.health, max_health |-> b.max_health,
     temperature |-> b.temperature, storage |-> b.storage]

\* models.py lines 212-221
BuildingToDict(b) ==
    [id |-> b.id, name |-> b.name, position |-> Vector2ToDict(b.position),
     enabled |-> b.enabled, health |-> b.health, maxHealth |-> b.max_health,
     temperature |-> b.temperature, storage |-> b.storage]

\* models.py lines 224-229
ResourceToDict(r) ==
    [name |-> r.name, available |-> r.available, capacity |-> r.capacity,
     deltaPerCycle |-> r.delta_per_cycle]

\* models.py lines 232-238
ChoreToDict(c) ==
    [id |-> c.id, name |-> c.name, priority |-> c.priority,
     assignedTo |-> c.assigned_to, progress |-> c.progress]

\* models.py lines 241-250
CellToDict(c) ==
    [position |-> Vector2ToDict(c.position), temperature |-> c.temperature,
     pressure |-> c.pressure, mass |-> c.mass, element |-> c.element,
     solid |-> c.solid, liquid |-> c.liquid, gas |-> c.gas]

\* models.py lines 183-253: ColonyState.to_dict
ToDict(s) ==
    [timestamp |-> IsoFormat(s.timestamp),
     world |-> [cycle |-> s.world.cycle, timeOfDay |-> s.world.time_of_day,
                worldSeed |-> s.world.world_seed,
                asteroidName |-> s.world.asteroid_name,
                temperatureRange |-> s.world.temperature_range,
                pressureRange |-> s.world.pressure_range],
     duplicants |-> [i \in 1..Len(s.duplicants) |-> DuplicantToDict(s.duplicants[i])],
     buildings |-> [i \in 1..Len(s.buildings) |-> BuildingToDict(s.buildings[i])],
     resources |-> [i \in 1..Len(s.resources) |-> ResourceToDict(s.resources[i])],
     chores |-> [i \in 1..Len(s.chores) |-> ChoreToDict(s.chores[i])],
     cells |-> [i \in 1..Len(s.cells) |-> CellToDict(s.cells[i])],
     alerts |-> s.alerts]

\* models.py lines 12-14: Vector2.from_dict
Vector2FromDict(data) == [x |-> DictGet(data, "x", 0), y |-> DictGet(data, "y", 0)]

\* models.py lines 101-116: DuplicantState.from_dict with every field
DuplicantFromDict(data) ==
    [id |-> DictGet(data, "id", ""), name |-> DictGet(data, "name", ""),
     position |-> Vector2FromDict(DictGet(data, "position", <<>>)),
     health |-> DictGet(data, "health", 100), stress |-> DictGet(data, "stress", 0),
     calories |-> DictGet(data, "calories", 4000), oxygen |-> DictGet(data, "oxygen", 100),
     bladder |-> DictGet(data, "bladder", 0), stamina |-> DictGet(data, "stamina", 100),
     current_task |-> DictGet(data, "currentTask", "None"),
     skills |-> DictGet(data, "skills", <<>>), traits |-> DictGet(data, "traits", <<>>)]

\* models.py lines 53-64: BuildingInfo.from_dict with every field
BuildingFromDict(data) ==
    [id |-> DictGet(data, "id", ""), name |-> DictGet(data, "name", ""),
     position |-> Vector2FromDict(DictGet(data, "position", <<>>)),
     enabled |-> DictGet(data, "enabled", FALSE), health |-> DictGet(data, "health", 0),
     max_health |-> DictGet(data, "maxHealth", 100),
     temperature |-> DictGet(data, "temperature", 0),
     storage |-> DictGet(data, "storage", <<>>)]

\* models.py lines 126-133: ResourceInfo.from_dict
ResourceFromDict(data) ==
    [name |-> DictGet(data, "name", ""), available |-> DictGet(data, "available", 0),
     capacity |-> DictGet(data, "capacity", 0),
     delta_per_cycle |-> DictGet(data, "deltaPerCycle", 0)]

\* models.py lines 75-83: ChoreStatusInfo.from_dict
ChoreFromDict(data) ==
    [id |-> DictGet(data, "id", ""), name |-> DictGet(data, "name", ""),
     priority |-> DictGet(data, "priority", 0),
     assigned_to |-> DictGet(data, "assignedTo", "None"),
     progress |-> DictGet(data, "progress", 0)]

\* models.py lines 28-39: CellInfo.from_dict
CellFromDict(data) ==
    [position |-> Vector2FromDict(DictGet(data, "position", <<>>)),
     temperature |-> DictGet(data, "temperature", 0),
     pressure |-> DictGet(data, "pressure", 0), mass |-> DictGet(data, "mass", 0),
     element |-> DictGet(data, "element", ""), solid |-> DictGet(data, "solid", FALSE),
     liquid |-> DictGet(data, "liquid", FALSE), gas |-> DictGet(data, "gas", FALSE)]

\* models.py lines 154-155: the first two elements, or (0, 0)
RangeOf(range) == IF Len(range) >= 2 THEN <<range[1], range[2]>> ELSE <<0, 0>>

\* models.py lines 145-156: WorldState.from_dict
WorldStateFromDict(data) ==
    [cycle |-> DictGet(data, "cycle", 0), time_of_day |-> DictGet(data, "timeOfDay", 0),
     world_seed |-> DictGet(data, "worldSeed", 0),
     asteroid_name |-> DictGet(data, "asteroidName", ""),
     temperature_range |-> RangeOf(DictGet(data, "temperatureRange", <<0, 0>>)),
     pressure_range |-> RangeOf(DictGet(data, "pressureRange", <<0, 0>>))]

\* models.py lines 170-181: ColonyState.from_dict of a dictionary that has
\* a timestamp
ColonyStateFromDict(data) ==
    LET duplicants == DictGet(data, "duplicants", <<>>)
        buildings == DictGet(data, "buildings", <<>>)
        resources == DictGet(data, "resources", <<>>)
        chores == DictGet(data, "chores", <<>>)
        cells == DictGet(data, "cells", <<>>)
    IN [timestamp |-> FromIsoFormat(data.timestamp),
        world |-> WorldStateFromDict(DictGet(data, "world", <<>>)),
        duplicants |-> [i \in 1..Len(duplicants) |-> DuplicantFromDict(duplicants[i])],
        buildings |-> [i \in 1..Len(buildings) |-> BuildingFromDict(buildings[i])],
        resources |-> [i \in 1..Len(resources) |-> ResourceFromDict(resources[i])],
        chores |-> [i \in 1..Len(chores) |-> ChoreFromDict(chores[i])],
        cells |-> [i \in 1..Len(cells) |-> CellFromDict(cells[i])],
        alerts |-> DictGet(data, "alerts", <<>>)]

\* desktop_debugger/main.py lines 109-111: the state of get_state is turned
\* into a dictionary
ToDictCall(s) ==
    /\ codec.pc = "idle"
    /\ codec' = [NoCodec EXCEPT !.pc = "dict", !.state = s, !.dict = ToDict(s)]
    /\ UNCHANGED <<running, command_ws, event_ws, command_task, event_task,
                   pending_requests, event_queue, cmdTask, evtTask, dpc, dws,
                   dsnap, req, cmd_log, evn, enull, got, gpc, gret, api,
                   planner, status, bridge, training, agent, finder, bfs,
                   slicer>>

\* the dictionary is read back with ColonyState.from_dict
FromDictCall ==
    /\ codec.pc = "dict"
    /\ codec' = [codec EXCEPT !.pc = "decoded", !.back = ColonyStateFromDict(codec.dict)]
    /\ UNCHANGED <<running, command_ws, event_ws, command_task, event_task,
                   pending_requests, event_queue, cmdTask, evtTask, dpc, dws,
                   dsnap, req, cmd_log, evn, enull, got, gpc, gret, api,
                   planner, status, bridge, training, agent, finder, bfs,
                   slicer>>

\* the caller drops the three
CodecDone ==
    /\ codec.pc = "decoded"
    /\ codec' = NoCodec
    /\ UNCHANGED <<running, command_ws, event_ws, command_task, event_task,
                   pending_requests, event_queue, cmdTask, evtTask, dpc, dws,
                   dsnap, req, cmd_log, evn, enull, got, gpc, gret, api,
                   planner, status, bridge, training, agent, finder, bfs,
                   slicer>>

\* ---- specification ----

\* connect(), disconnect() and the steps of the four maintenance tasks
Lifecycle ==
    \/ Connect
    \/ Disconnect
    \/ DisconnectAfterCommandClose
    \/ DisconnectAfterEventClose
    \/ \E t \in Tasks : CommandLoop(t)
    \/ \E t \in Tasks : CommandConnected(t)
    \/ \E t \in Tasks : CommandConnectFailed(t)
    \/ \E t \in Tasks : CommandSocketClosed(t)
    \/ \E t \in Tasks : CommandReadEnd(t)
    \/ \E t \in Tasks : CommandCancelled(t)
    \/ \E t \in Tasks : CommandExit(t)
    \/ \E t \in Tasks : EventLoop(t)
    \/ \E t \in Tasks : EventConnected(t)
    \/ \E t \in Tasks : EventConnectFailed(t)
    \/ \E t \in Tasks : EventSocketClosed(t)
    \/ \E t \in Tasks : EventReadEnd(t)
    \/ \E t \in Tasks : EventCancelled(t)
    \/ \E t \in Tasks : EventExit(t)

\* the request/response traffic of the command channel
Requests ==
    \/ \E t \in Tasks : \E f \in CommandFrames : HandleCommandMessage(t, f)
    \/ \E r \in Ids : SendRequest(r)
    \/ \E r \in Ids : SendComplete(r)
    \/ \E r \in Ids : SendFailed(r)
    \/ \E r \in Ids : TimeoutFire(r)
    \/ \E r \in Ids : TimeoutRaise(r)
    \/ \E r \in Ids : WaitReturn(r)
    \/ \E r \in Ids : WaitCancelled(r)

\* the event traffic of the event channel
Events ==
    \/ \E t \in Tasks : \E kind \in EventFrames : HandleEventMessage(t, kind)
    \/ GetEvents
    \/ GetEventsWake
    \/ GetEventsTimeout

Next == Lifecycle \/ Requests \/ Events

Spec == Init /\ [][Next]_vars

\* the client with a silent event server and no get_events caller
NextCmd == Lifecycle \/ Requests

SpecCmd == Init /\ [][NextCmd]_vars

\* the client with no send_request caller and a silent command server
NextEvt == Lifecycle \/ Events

SpecEvt == Init /\ [][NextEvt]_vars

\* the two channels alone: no request, no frame received
SpecLife == Init /\ [][Lifecycle]_vars

\* the event loop runs a task whose sleep is over or whose socket is closed,
\* and an endpoint that is reachable accepts one of the attempts made to it
FairSpecLife ==
    /\ SpecLife
    /\ \A t \in Tasks :
          /\ WF_vars(CommandLoop(t))
          /\ WF_vars(CommandReadEnd(t))
          /\ SF_vars(CommandConnected(t))
          /\ WF_vars(EventLoop(t))
          /\ WF_vars(EventReadEnd(t))
          /\ SF_vars(EventConnected(t))

\* a caller that calls connect() again, before or after a disconnect()
NextReconnect == Lifecycle \/ ConnectAgain

SpecReconnect == Init /\ [][NextReconnect]_vars

\* connect() and the maintenance tasks of a client that is never disconnected
Channels ==
    \/ Connect
    \/ \E t \in Tasks : CommandLoop(t)
    \/ \E t \in Tasks : CommandConnected(t)
    \/ \E t \in Tasks : CommandConnectFailed(t)
    \/ \E t \in Tasks : CommandSocketClosed(t)
    \/ \E t \in Tasks : CommandReadEnd(t)
    \/ \E t \in Tasks : EventLoop(t)
    \/ \E t \in Tasks : EventConnected(t)
    \/ \E t \in Tasks : EventConnectFailed(t)
    \/ \E t \in Tasks : EventSocketClosed(t)
    \/ \E t \in Tasks : EventReadEnd(t)

\* both channels with traffic at once, while the client is running: the
\* first MaxBothReq send_request calls, the first MaxBothEvents frames of
\* the event server, any frame of the command server, a get_events caller
NextBoth ==
    \/ Channels
    \/ \E t \in Tasks : \E f \in CommandFrames : HandleCommandMessage(t, f)
    \/ \E r \in 1..MaxBothReq : SendRequest(r)
    \/ \E r \in Ids : SendComplete(r)
    \/ \E r \in Ids : SendFailed(r)
    \/ \E r \in Ids : TimeoutFire(r)
    \/ \E r \in Ids : TimeoutRaise(r)
    \/ \E r \in Ids : WaitReturn(r)
    \/ \E t \in Tasks : \E kind \in EventFrames \ {"null"} :
          evn < MaxBothEvents /\ HandleEventMessage(t, kind)
    \/ GetEvents
    \/ GetEventsWake
    \/ GetEventsTimeout

SpecBoth == Init /\ [][NextBoth]_vars

\* the command channel without the frames that match no table entry: the
\* handler only logs those (HandleCommandMessage), so they change no request
AnsweringFrames ==
    \E t \in Tasks : \E f \in CommandFrames :
        f.kind = "obj" /\ f.requestId \in pending_requests /\ HandleCommandMessage(t, f)

Callers ==
    \/ \E r \in Ids : SendRequest(r)
    \/ \E r \in Ids : SendComplete(r)
    \/ \E r \in Ids : SendFailed(r)
    \/ \E r \in Ids : TimeoutFire(r)
    \/ \E r \in Ids : TimeoutRaise(r)
    \/ \E r \in Ids : WaitReturn(r)
    \/ \E r \in Ids : WaitCancelled(r)

NextAnswering == Lifecycle \/ AnsweringFrames \/ Callers

\* the event loop runs every caller that is ready to run, a send() on a
\* socket ends, and the timer of wait_for fires; the server and the network
\* owe nothing
FairSpecCmd ==
    /\ Init /\ [][NextAnswering]_vars
    /\ \A r \in Ids :
          /\ WF_vars(SendComplete(r))
          /\ WF_vars(SendFailed(r))
          /\ WF_vars(TimeoutFire(r))
          /\ WF_vars(TimeoutRaise(r))
          /\ WF_vars(WaitReturn(r))
          /\ WF_vars(WaitCancelled(r))

\* the steps of the maintenance tasks and of their sockets
TaskSteps ==
    \/ \E t \in Tasks : CommandLoop(t)
    \/ \E t \in Tasks : CommandConnected(t)
    \/ \E t \in Tasks : CommandConnectFailed(t)
    \/ \E t \in Tasks : CommandSocketClosed(t)
    \/ \E t \in Tasks : CommandReadEnd(t)
    \/ \E t \in Tasks : CommandCancelled(t)
    \/ \E t \in Tasks : CommandExit(t)
    \/ \E t \in Tasks : EventLoop(t)
    \/ \E t \in Tasks : EventConnected(t)
    \/ \E t \in Tasks : EventConnectFailed(t)
    \/ \E t \in Tasks : EventSocketClosed(t)
    \/ \E t \in Tasks : EventReadEnd(t)
    \/ \E t \in Tasks : EventCancelled(t)
    \/ \E t \in Tasks : EventExit(t)

\* the debugger's worker thread: its client is connected and disconnected
\* by _async_main only
NextWorker ==
    \/ WorkerStart
    \/ WorkerStop
    \/ WorkerStopAfterCommandClose
    \/ WorkerStopAfterEventClose
    \/ TaskSteps

SpecWorker == Init /\ [][NextWorker]_vars

\* the high-level API methods against a server that answers with any
\* response
NextApi ==
    \/ GetState
    \/ \E id \in BuildingIds, x, y \in Cells : Build(id, x, y)
    \/ \E x, y \in Cells, p \in Priorities : SetPriority(x, y, p)
    \/ \E n \in Speeds : SetSpeed(n)
    \/ Pause
    \/ Resume
    \/ \E response \in SuccessResponses : ReturnSuccess(response)
    \/ \E response \in StateResponses : GetStateReturn(response)
    \/ CallRaises

SpecApi == Init /\ [][NextApi]_vars

\* a Planner constructed with any colony state and given any goals
NextPlanner ==
    \/ \E game_state \in ColonyStates : NewPlanner(game_state)
    \/ \E goals \in SUBSET Goals : SetGoals(goals)
    \/ CreatePlan

SpecPlanner == Init /\ [][NextPlanner]_vars

\* the GUI thread and the worker thread of the debugger, with a client whose
\* calls return or raise
NextBridge ==
    \/ BridgeRun
    \/ SendCommand
    \/ BridgeTake
    \/ \E c \in Commands : ProcessReturn(c)
    \/ \E c \in Commands : ProcessRaise(c)
    \/ BridgeStop
    \/ BridgeExit

SpecBridge == Init /\ [][NextBridge]_vars

\* a TrainingLoop run with a game that sends state updates and a GUI that
\* sends pause and resume
NextTraining ==
    \/ TrainingRun
    \/ \E event \in TrainingEvents : TrainingEvent(event)
    \/ \E k \in 0..MaxGuiCommands : CheckGuiCommands(k)
    \/ TrainingCleanup
    \/ \E cmd_type \in GuiCommands : GuiSend(cmd_type)

SpecTraining == Init /\ [][NextTraining]_vars

\* the agent as the training loop drives it: observe, decide, and a reset
\* at the end of an episode
NextAgent ==
    \/ \E state \in ObservedStates : AgentObserve(state)
    \/ AgentDecide
    \/ AgentReset

SpecAgent == Init /\ [][NextAgent]_vars

\* calls of _find_suitable_location_2d with any building size and grid
NextFind ==
    \/ \E call \in FindCalls : FindCall(call[1], call[2], call[3])
    \/ FindDone

SpecFind == Init /\ [][NextFind]_vars

\* calls of _validate_space_bfs with a start cell inside the grid
NextBfs ==
    \/ \E start_x, start_y \in 0..MaxGridSide-1, width, height \in Sides,
          grid \in SmallGrids, max_cells \in Limits :
          ValidateCall(start_x, start_y, width, height, grid, max_cells)
    \/ ValidateLoop
    \/ ValidateDone

SpecBfs == Init /\ [][NextBfs]_vars

\* a call that has started runs on
FairSpecBfs == SpecBfs /\ WF_vars(ValidateLoop)

\* a coordinator cycle: a slicer for the game state, the context of a task
\* and its decomposition
NextSlicer ==
    \/ \E game_state \in GameStates : NewSlicer(game_state)
    \/ \E i \in 1..Len(SlicerTasks) : GetContext(SlicerTasks[i])
    \/ Decompose

SpecSlicer == Init /\ [][NextSlicer]_vars

\* ColonyState objects turned into dictionaries and read back
NextCodec ==
    \/ \E s \in Colonies : ToDictCall(s)
    \/ FromDictCall
    \/ CodecDone

SpecCodec == Init /\ [][NextCodec]_vars

\* ---- claims ----

\* the request has an id and a table entry: send_request got past line 157
Issued(r) == req[r].fut # "none"

\* the send_request call has returned or raised
Finished(r) == req[r].pc = "done"

OneOutcome(r) ==
    \/ req[r].outcome = "response" /\ req[r].fut = "result"
    \/ req[r].outcome = "timeout" /\ req[r].fut = "cancelled" /\ req[r].result = NoFrame
    \/ req[r].outcome = "cancelled" /\ req[r].fut = "cancelled" /\ req[r].result = NoFrame
    \/ req[r].outcome = "ConnectionClosed" /\ ~req[r].sent /\ req[r].fut # "none"

C2_OwnResponse ==
    \A r \in Ids :
        req[r].fut = "result" =>
            req[r].result.kind = "obj" /\ req[r].result.requestId = r

\* both calls were outstanding together and the later one has been answered
\* and has returned while the earlier one still waits for its answer
C2_Witness ==
    \E r, q \in Ids :
        /\ r < q
        /\ req[q].outcome = "response"
        /\ req[q].result.requestId = q
        /\ req[r].pc = "waiting"
        /\ req[r].sent
        /\ req[r].fut = "pending"
        /\ r \in pending_requests

\* C3: a request outstanding on a command connection that was lost is no
\* longer outstanding when the maintenance task makes its next connect attempt
C3_CancelledWithinReconnectCycle ==
    \A r \in Ids :
        req[r].pc = "waiting" /\ req[r].fut = "pending" =>
            cmdTask[req[r].ws].pc # "connecting"

\* C4: the handler drops a frame whose requestId is missing or not a key of
\* pending_requests: it logs the warning and changes neither the table, nor
\* any request, nor the connection it reads from
C4_UnknownFrameDropped ==
    [][\A t \in Tasks : \A f \in CommandFrames :
          (/\ HandleCommandMessage(t, f)
           /\ f.kind = "obj"
           /\ (f.requestId = NoId \/ f.requestId \notin pending_requests))
          => /\ pending_requests' = pending_requests
             /\ req' = req
             /\ cmdTask' = cmdTask
             /\ command_ws' = command_ws
             /\ cmd_log' = "warning"]_vars

\* a frame with a foreign id was dropped while a request is outstanding on
\* the open connection
C4_Witness ==
    /\ cmd_log = "warning"
    /\ \A r \in Ids : Issued(r) => r \in pending_requests
    /\ \E r \in pending_requests : req[r].pc = "waiting" /\ req[r].fut = "pending"
    /\ command_ws # None
    /\ cmdTask[command_ws].pc = "reading"
    /\ cmdTask[command_ws].sock = "open"

\* the step in which disconnect() returns
DisconnectReturns ==
    /\ \/ Disconnect
       \/ DisconnectAfterCommandClose
       \/ DisconnectAfterEventClose
    /\ dpc' = "idle"

\* the requests that were outstanding when the returning disconnect() was called
OutstandingAtCall == IF dpc = "idle" THEN pending_requests ELSE dsnap

\* C5 as stated: when disconnect() returns, every request that was outstanding
\* when it was called has been resolved as cancelled
C5_AllCancelled ==
    [][DisconnectReturns =>
          \A r \in OutstandingAtCall :
              /\ req'[r].fut = "cancelled"
              /\ req'[r].outcome \in {"none", "cancelled"}]_vars

\* C5 amended: when disconnect() returns, every request still in the table at
\* its last step has been cancelled, the table is empty, and no request that
\* was outstanding at the call is left hanging: its future is done or its
\* call has raised
C5_NoneLeftHanging ==
    [][DisconnectReturns =>
          /\ \A r \in pending_requests : req'[r].fut = "cancelled"
          /\ pending_requests' = {}
          /\ \A r \in OutstandingAtCall :
                req'[r].fut \in {"result", "cancelled"} \/ Finished(r)]_vars

\* disconnect() has returned and a caller is about to wake up with the
\* cancellation it made
C5_Witness ==
    /\ dpc = "idle"
    /\ ~running
    /\ pending_requests = {}
    /\ \E r \in Ids : req[r].pc = "waiting" /\ req[r].fut = "cancelled"

C7_TimeoutRemovesEntry ==
    /\ [][\A r \in Ids :
             req[r].pc = "timing_out"
             => \/ req'[r] = req[r]
                \/ /\ req'[r].outcome = "timeout"
                   /\ Finished(r)'
                   /\ r \notin pending_requests']_vars
    /\ [](\A r \in Ids :
             req[r].outcome = "timeout"
             => /\ r \notin pending_requests
                /\ req[r].result = NoFrame
                /\ Finished(r))

\* a request whose frame was written has timed out
C7_Witness ==
    \E r \in Ids : req[r].outcome = "timeout" /\ req[r].sent

\* C8 as stated: every id in pending_requests belongs to a request that is
\* not yet resolved
C8_TableHoldsUnresolved ==
    \A r \in pending_requests : req[r].fut = "pending"

\* C8 amended: every id in pending_requests belongs to a call that has not
\* yet returned or raised; its future is unresolved, except between the step
\* in which wait_for cancels a timed-out future and the step in which the
\* caller resumes and removes the id
C8_TableHoldsUnfinished ==
    \A r \in pending_requests :
        /\ ~Finished(r)
        /\ req[r].fut # "pending"
           => req[r].pc = "timing_out" /\ req[r].fut = "cancelled"

\* a timed-out request whose id is still in the table
C8_Witness ==
    \E r \in pending_requests : req[r].pc = "timing_out" /\ req[r].fut = "cancelled"

\* C9: a future that is done keeps its state and its result, a finished call
\* keeps its outcome, and a future whose id has left the table is not
\* resolved any more
C9_ResolvedOnce ==
    [][\A r \in Ids :
          /\ req[r].fut \in {"result", "cancelled"}
             => req'[r].fut = req[r].fut /\ req'[r].result = req[r].result
          /\ req[r].outcome # "none" => req'[r].outcome = req[r].outcome
          /\ Issued(r) /\ r \notin pending_requests
             => req'[r].fut = req[r].fut /\ req'[r].result = req[r].result]_vars

\* a frame has arrived for a request after wait_for had cancelled its future:
\* the handler took the id from the table (disconnect() was never called)
\* and the future is still cancelled and without a result
C9_Witness ==
    \E r \in Ids :
        /\ running
        /\ req[r].pc = "timing_out"
        /\ r \notin pending_requests
        /\ req[r].fut = "cancelled"
        /\ req[r].result = NoFrame

\* the numbers of a sequence grow from left to right
Increasing(s) == \A i, j \in 1..Len(s) : i < j => s[i] < s[j]

\* C10: the events returned so far, followed by the events still queued, are
\* in the order in which their frames arrived
C10_Fifo == Increasing(got \o event_queue)

\* two events have been returned
C10_Witness == Len(got) >= 2

\* C11: a get_events call that times out on an empty queue returns None and
\* raises nothing, leaves the queue and the events returned so far as they
\* are, and changes neither channel's task, socket or handle
C11_TimeoutReturnsNone ==
    [][gpc = "waiting" /\ gpc' = "idle" /\ event_queue = <<>>
       => /\ gret' = "None"
          /\ event_queue' = <<>>
          /\ got' = got
          /\ UNCHANGED <<running, command_ws, event_ws, command_task,
                         event_task, cmdTask, evtTask>>]_vars

\* a get_events call has timed out on an empty queue while the event channel
\* was connected
C11_Witness ==
    /\ gret = "None"
    /\ gpc = "idle"
    /\ event_queue = <<>>
    /\ got = <<>>
    /\ event_ws # None
    /\ evtTask[event_ws].sock = "open"

\* a step of the event maintenance task or of its socket
EventChannelStep ==
    \E t \in Tasks :
        \/ EventLoop(t)
        \/ EventConnected(t)
        \/ EventConnectFailed(t)
        \/ EventSocketClosed(t)
        \/ EventReadEnd(t)

\* a step of the command maintenance task or of its socket
CommandChannelStep ==
    \E t \in Tasks :
        \/ CommandLoop(t)
        \/ CommandConnected(t)
        \/ CommandConnectFailed(t)
        \/ CommandSocketClosed(t)
        \/ CommandReadEnd(t)

\* C12: a connect attempt, a drop or a reconnect of the event channel leaves
\* every request, the table and the command channel as they are, so every
\* step of a send_request caller that could be taken before can be taken
\* after; a connect attempt, a drop or a reconnect of the command channel
\* leaves the event channel, the event queue and the get_events caller as
\* they are
C12_ChannelsIndependent ==
    [][/\ \/ UNCHANGED <<req, pending_requests, command_ws, command_task,
                          cmdTask, cmd_log>>
          \/ ~EventChannelStep
       /\ \/ UNCHANGED <<event_queue, event_ws, event_task, evtTask, evn,
                          enull, got, gpc, gret>>
          \/ ~CommandChannelStep]_vars

\* the event connection has dropped and the command connection has dropped;
\* the request is still in flight and the queued event is still queued
C12_Witness ==
    /\ \E t \in Tasks : evtTask[t].pc = "sleeping"
    /\ \E t \in Tasks : cmdTask[t].pc = "sleeping"
    /\ \E r \in pending_requests : req[r].pc = "waiting" /\ req[r].fut = "pending"
    /\ event_queue # <<>>

\* the channel is Connected: the handle is set and its socket is open
CommandConnectedNow == command_ws # None /\ cmdTask[command_ws].sock = "open"

EventConnectedNow == event_ws # None /\ evtTask[event_ws].sock = "open"

\* while the flag is set, a task that leaves a connect attempt without a
\* connection, or leaves its read loop, clears the handle and sleeps, and a
\* task that leaves the sleep makes a connect attempt
Absorbed(tasks, tasksNext, wsNext) ==
    \A t \in Tasks :
        /\ /\ running
           /\ tasks[t].pc \in {"connecting", "reading"}
           /\ tasksNext[t].pc \notin {tasks[t].pc, "reading"}
           => tasksNext[t].pc = "sleeping" /\ wsNext = None
        /\ /\ running
           /\ tasks[t].pc = "sleeping"
           /\ tasksNext[t].pc # "sleeping"
           => tasksNext[t].pc = "connecting"

\* C13: while the running flag is set every termination of a connection is
\* absorbed by the maintenance task, which sleeps and then makes a new
\* attempt; with an endpoint that accepts one of the attempts made to it, a
\* channel that is running becomes Connected again unless disconnect() is
\* called first
C13_ReconnectsWhileRunning ==
    /\ [][/\ Absorbed(cmdTask, cmdTask', command_ws')
          /\ Absorbed(evtTask, evtTask', event_ws')]_vars
    /\ (running /\ command_task # None) ~> (CommandConnectedNow \/ ~running)
    /\ (running /\ event_task # None) ~> (EventConnectedNow \/ ~running)

\* the command connection has ended, its task is in the reconnect sleep and
\* the flag is set; the event channel is Connected
C13_Witness ==
    /\ running
    /\ \E t \in Tasks : cmdTask[t].pc = "sleeping"
    /\ EventConnectedNow

\* the connection state of a channel, read off its maintenance task: in
\* websockets.connect it is Connecting, inside the async with it is
\* Connected, once the task has ended it is Closed, otherwise Disconnected
ConnectionState(task) ==
    CASE task.pc = "connecting" -> "Connecting"
      [] task.pc \in {"reading", "exiting"} -> "Connected"
      [] task.pc = "done" -> "Closed"
      [] OTHER -> "Disconnected"

\* the transitions of the state machine, and what each one needs
Transition(from, to) ==
    \/ from = to
    \/ from = "Disconnected" /\ to = "Connecting" /\ running
    \/ from = "Connecting" /\ to = "Connected"
    \/ from = "Connecting" /\ to = "Disconnected" /\ running
    \/ from = "Connected" /\ to = "Disconnected" /\ running
    \/ from # "Closed" /\ to = "Closed" /\ ~running

AsConstructed ==
    /\ ~running
    /\ command_ws = None
    /\ event_ws = None
    /\ event_task = None
    /\ cmdTask = [t \in Tasks |-> NewTask]
    /\ evtTask = [t \in Tasks |-> NewTask]
    /\ pending_requests = {}
    /\ dpc = "idle"

\* C15: on a client that connect() was never called on, disconnect() returns
\* at once and leaves the client as it was constructed; every disconnect()
\* call, the first and any later one, returns with the flag cleared and the
\* table empty, and no step of it raises
C15_DisconnectIdempotent ==
    /\ [](command_task = None => AsConstructed)
    /\ [][DisconnectReturns => ~running' /\ pending_requests' = {}]_vars

\* a second disconnect() has returned: it has marked for cancellation a
\* command task that the first call's cancellation had already reached
C15_Witness ==
    /\ dpc = "idle"
    /\ ~running
    /\ pending_requests = {}
    /\ \E t \in Tasks : cmdTask[t].pc = "exiting" /\ cmdTask[t].cancel
    /\ \E r \in Ids : req[r].outcome = "cancelled"

\* the maintenance task has ended (or was never created) and holds no socket
\* that is open or being closed
Drained(task) ==
    /\ task.pc \in {"none", "done"}
    /\ ~task.cancel
    /\ task.sock \in {"none", "closed"}

\* C16: when disconnect() returns, both maintenance tasks have ended, none is
\* only marked for cancellation, and no socket of either channel is open
C16_TasksDrained ==
    [][DisconnectReturns =>
          \A t \in Tasks : Drained(cmdTask'[t]) /\ Drained(evtTask'[t])]_vars

\* the channel does not start a connect attempt and does not become Connected
\* in this step
NoNewConnection(task, taskNext) ==
    ConnectionState(taskNext) \in {"Connecting", "Connected"}
    => ConnectionState(taskNext) = ConnectionState(task)

\* C17: once disconnect() has been called, which clears the flag in its first
\* step, no channel starts a connect attempt or becomes Connected
C17_NoConnectAfterDisconnect ==
    [][~running =>
          \A t \in Tasks :
              /\ NoNewConnection(cmdTask[t], cmdTask'[t])
              /\ NoNewConnection(evtTask[t], evtTask'[t])]_vars

\* the maintenance tasks of one channel that have been started and have not
\* ended
LiveTasks(tasks) == {t \in Tasks : tasks[t].pc \notin {"none", "done"}}

\* the sockets of one channel that are open
OpenSockets(tasks) == {t \in Tasks : tasks[t].sock = "open"}

\* C18: whatever connect() and disconnect() calls are made, each channel has
\* at most one maintenance task that has not ended and at most one open
\* socket
C18_OneTaskOneConnection ==
    /\ Cardinality(LiveTasks(cmdTask)) <= 1
    /\ Cardinality(LiveTasks(evtTask)) <= 1
    /\ Cardinality(OpenSockets(cmdTask)) <= 1
    /\ Cardinality(OpenSockets(evtTask)) <= 1

\* the command frames that are not JSON or cannot be handled as an object
MalformedFrames == {f \in CommandFrames : f.kind \in {"bad", "nonobj"}}

C20_NoTransportFault ==
    \A r \in Ids : req[r].outcome # "ConnectionClosed"

\* the frames the running or finished API call handed to send_request
Sent(action, payload) == <<[action |-> action, payload |-> payload]>>

\* C21: set_speed(n) sends Global.SetSpeed with speed = min(3, max(0, n)):
\* 0 for n below 0, 3 for n above 3, n itself otherwise; pause() sends speed
\* 0 and resume() sends speed 1
C21_SetSpeedClamped ==
    /\ api.method = "set_speed" =>
          /\ api.sent = Sent("Global.SetSpeed",
                             [speed |-> Min(3, Max(0, api.args.speed))])
          /\ api.args.speed < 0 => api.sent[1].payload.speed = 0
          /\ api.args.speed > 3 => api.sent[1].payload.speed = 3
          /\ api.args.speed \in 0..3 => api.sent[1].payload.speed = api.args.speed
    /\ api.method = "pause" => api.sent = Sent("Global.SetSpeed", [speed |-> 0])
    /\ api.method = "resume" => api.sent = Sent("Global.SetSpeed", [speed |-> 1])

C21_Witness ==
    /\ api.method = "set_speed"
    /\ api.args.speed < 0
    /\ api.sent[1].payload.speed = 0

\* C22: set_priority(x, y, p) sends Global.SetPriority with the cell {x, y}
\* unchanged and priority = min(9, max(1, p)): 1 for p below 1, 9 for p
\* above 9, p itself otherwise
C22_SetPriorityClamped ==
    api.method = "set_priority" =>
        /\ api.sent = Sent("Global.SetPriority",
                           [cell |-> [x |-> api.args.cell_x, y |-> api.args.cell_y],
                            priority |-> Min(9, Max(1, api.args.priority))])
        /\ api.args.priority < 1 => api.sent[1].payload.priority = 1
        /\ api.args.priority > 9 => api.sent[1].payload.priority = 9
        /\ api.args.priority \in 1..9 =>
               api.sent[1].payload.priority = api.args.priority

C22_Witness ==
    /\ api.method = "set_priority"
    /\ api.args.priority < 1
    /\ api.args.cell_x # api.args.cell_y
    /\ api.sent[1].payload.priority = 1

\* C23: build(id, x, y) sends exactly one frame, with action Global.Build and
\* payload {buildingId: id, cell: {x, y}}, and returns true exactly when the
\* response carries success = true; a response without success, or with
\* success = false, yields false
C23_BuildFrameAndResult ==
    api.method = "build" =>
        /\ api.sent = Sent("Global.Build",
                           [buildingId |-> api.args.building_id,
                            cell |-> [x |-> api.args.cell_x, y |-> api.args.cell_y]])
        /\ api.pc = "returned" =>
              /\ api.ret = "true" <=> api.response.success = "true"
              /\ api.response.success \in {"absent", "false"} => api.ret = "false"

C23_Witness ==
    /\ api.method = "build"
    /\ api.pc = "returned"
    /\ api.response.success = "absent"
    /\ api.ret = "false"

\* the object get_state decodes: the "payload" of the response, {} without
PayloadOf(response) ==
    IF response.has_payload THEN response.payload ELSE EmptyDict

\* the decoded list has the elements of the array, in the array's order
SameElements(list, array) ==
    /\ Len(list) = Len(array)
    /\ \A i \in 1..Len(array) : list[i].id = array[i].id

\* C24: the ColonyState get_state returns has in its duplicants and
\* buildings lists exactly the elements of the payload's arrays, in the same
\* order, and an empty list for an array the payload does not have
C24_StateListsDecoded ==
    api.method = "get_state" /\ api.pc = "returned" =>
        /\ SameElements(api.state.duplicants, PayloadOf(api.response).duplicants)
        /\ SameElements(api.state.buildings, PayloadOf(api.response).buildings)
        /\ "duplicants" \notin PayloadOf(api.response).has =>
               Len(api.state.duplicants) = 0
        /\ "buildings" \notin PayloadOf(api.response).has =>
               Len(api.state.buildings) = 0

C24_Witness ==
    /\ api.method = "get_state"
    /\ api.pc = "returned"
    /\ Len(api.state.duplicants) = 3
    /\ Len(api.state.buildings) = 2
    /\ api.state.duplicants[1].id # api.state.duplicants[3].id

\* the plan has a Build step for a farm_tile
BuildsFarmTile(plan) ==
    \E i \in 1..Len(plan) :
        /\ plan[i].action = "Build"
        /\ plan[i].params.building_type = "farm_tile"

\* C25: create_plan returns an empty plan for an empty goal list, and for
\* the goal achieve_self_sufficiency a non-empty plan with a Build step for
\* a farm_tile, whatever colony state the planner was constructed with
C25_PlanFollowsGoals ==
    planner.pc = "planned" =>
        /\ planner.goals = {} => planner.plan = <<>>
        /\ "achieve_self_sufficiency" \in planner.goals =>
               planner.plan # <<>> /\ BuildsFarmTile(planner.plan)

\* the caller of request r is inside send() or inside wait_for, and its
\* future is neither resolved nor cancelled
StillWaiting(r) ==
    /\ req[r].pc \in {"sending", "waiting"}
    /\ req[r].fut = "pending"

\* C26: the id is in the table before the frame is written, so a response
\* that arrives while the caller is still waiting, even before send() has
\* returned, finds the id, resolves the future with that frame and is not
\* logged as unknown
C26_EarlyResponseFound ==
    [][\A t \in Tasks, r \in Ids :
          /\ StillWaiting(r)
          /\ HandleCommandMessage(t, [kind |-> "obj", requestId |-> r])
          => /\ req'[r].fut = "result"
             /\ req'[r].result = [kind |-> "obj", requestId |-> r]
             /\ cmd_log' = cmd_log]_vars

C26_Witness ==
    \E r \in Ids :
        /\ req[r].pc = "sending"
        /\ req[r].fut = "result"
        /\ req[r].result.requestId = r

\* the events returned so far followed by the events still queued
Delivery == got \o event_queue

\* C27: every queued event is returned by exactly one get_events call, once:
\* no event number occurs twice among the returned and the queued events;
\* a step either leaves them as they are, or returns the oldest queued event,
\* or queues the frame that arrived; the steps of connect(), disconnect()
\* and the two maintenance tasks, and a get_events call that times out,
\* leave the queue and the returned events as they are
C27_DeliveredOnce ==
    /\ [](Increasing(Delivery))
    /\ [][\/ UNCHANGED <<got, event_queue>>
          \/ /\ event_queue # <<>>
             /\ got' = Append(got, Head(event_queue))
             /\ event_queue' = Tail(event_queue)
          \/ /\ got' = got
             /\ event_queue' = Append(event_queue, evn + 1)
             /\ evn' = evn + 1]_vars
    /\ [][Lifecycle \/ GetEventsTimeout => UNCHANGED <<got, event_queue>>]_vars

\* after disconnect() has returned and the event task has ended, one event
\* has been returned and a later one is still queued
C27_Witness ==
    /\ ~running
    /\ dpc = "idle"
    /\ \E t \in Tasks : evtTask[t].pc = "done"
    /\ got = <<1>>
    /\ event_queue = <<2>>

\* C28: get_events returns None only when no event was available: a call
\* that takes an event from the queue returns something other than None
C28_NoneMeansNoEvent ==
    [][got' # got => gret' # "None"]_vars

\* the task's connection is open; one that disconnect() is closing counts as
\* open until its close handshake is over
HoldsConnection(t) == cmdTask[t].sock \in {"open", "closing"}

\* C29: command_ws is set exactly when the current command maintenance task
\* holds an open connection, and then it is that task's connection
C29_HandleAgrees ==
    command_ws # None <=>
        /\ command_task # None
        /\ HoldsConnection(command_task)
        /\ command_ws = command_task

\* C30: the status the worker last reported is True only while the command
\* channel is Connected; once that connection is lost the last report is
\* not True
C30_StatusFollowsConnection == status = "True" => CommandConnectedNow

\* the command got its one outcome signal
Answered(c) == bridge.command[c] \in {"response", "error"}

\* C31: every command sent is taken off the queue once, in the order sent,
\* and gets one outcome signal, also when stop() was called while it was
\* queued or in flight: once the worker has ended, no command that was sent
\* before is without its signal
C31_EveryCommandAnswered ==
    /\ \A i, j \in 1..Len(bridge.taken) : i < j => bridge.taken[i] < bridge.taken[j]
    /\ bridge.pc = "exited" =>
          \A c \in Commands : bridge.command[c] # "none" => Answered(c)

\* the GUI has written a resume that the loop has not received
ResumeWaiting == training.gui # <<>> /\ training.gui[1] = "resume"

\* C32: a pause command pauses training and a later resume command resumes
\* it: the run does not end with the pause handled and the resume that
\* followed it never received
C32_ResumeAfterPause ==
    training.last = "pause" /\ ResumeWaiting => training.pc # "ended"

\* C33: no episode is longer than 1000 steps; an episode ends at the first
\* training step whose current state has no duplicants; when an episode ends
\* episode_num counts it and the reward and length counters are zero
C33_EpisodeLimit ==
    /\ [](\A i \in 1..Len(training.episode_lengths) : training.episode_lengths[i] <= 1000)
    /\ [][/\ training'.step_num = training.step_num + 1 /\ training'.current_state = "empty"
             => Len(training'.episode_lengths) = Len(training.episode_lengths) + 1
          /\ Len(training'.episode_lengths) = Len(training.episode_lengths) + 1
             => /\ training'.episode_num = training.episode_num + 1
                /\ training'.current_episode_reward = 0
                /\ training'.current_episode_length = 0]_vars

\* C34: after the agent acted on a need, the next 10 decide_action calls
\* with that need on top return noop and the call after them acts again; a
\* need the agent has not acted on is acted on when it is on top, whatever
\* the cooldowns of the other needs are
C34_CooldownTenSteps ==
    [][agent.pc = "decide" /\ agent'.pc = "observe" /\ agent.priority_queue # <<>>
       => LET need == agent.priority_queue[1][1]
          IN /\ agent.waited[need] \in 0..9 => agent'.ret = "noop"
             /\ agent.waited[need] \in {-1, 10} => agent'.ret # "noop"]_vars

\* the agent acts on a need again after ten calls that waited, while
\* another need is in its cooldown
C34_Witness ==
    /\ agent.pc = "observe" /\ agent.ret # "noop" /\ agent.before = 10
    /\ \E n \in DOMAIN agent.action_cooldown :
          n # agent.top /\ agent.action_cooldown[n] > 0

\* the region of the call at (x, y) lies inside the grid and is all vacuum
Suitable(x, y) ==
    /\ x + finder.width <= finder.grid.shape[2]
    /\ y + finder.height <= finder.grid.shape[1]
    /\ \A i \in 0..finder.width-1, j \in 0..finder.height-1 :
          finder.grid.cell[<<y + j, x + i>>] = 0

\* the positions of the grid, from 0
Positions == (0..finder.grid.shape[2]-1) \X (0..finder.grid.shape[1]-1)

\* the call returned the first position, by x and then by y, that is P,
\* with no preparation actions, and no location exactly when none is P
ReturnsFirst(P(_, _)) ==
    finder.pc = "returned" =>
        /\ finder.prep_actions = "[]"
        /\ IF \E p \in Positions : P(p[1], p[2])
           THEN /\ finder.location \in Positions
                /\ P(finder.location[1], finder.location[2])
                /\ \A p \in Positions :
                      P(p[1], p[2]) =>
                          \/ finder.location[1] < p[1]
                          \/ finder.location[1] = p[1] /\ finder.location[2] <= p[2]
           ELSE finder.location = NoLocation

SuitableWithinLimit(x, y) == Suitable(x, y) /\ finder.width * finder.height <= 100

RegionCells == bfs.width * bfs.height

\* the region of the validation call reaches past the right or bottom edge
PastEdge ==
    \/ bfs.start_x + bfs.width > bfs.grid.shape[2]
    \/ bfs.start_y + bfs.height > bfs.grid.shape[1]

HasAction == slicer.task # <<>> /\ "action" \in DOMAIN slicer.task

\* C37: for a task with an action get_context_for_task returns a context
\* with the game state's cycle and duplicants, with resources for a Build
\* task and research_progress for a Research task; for a task without an
\* action it returns an empty context; decompose_task takes the result
C37_ContextReturned ==
    /\ slicer.pc \in {"sliced", "decomposed"} /\ ~HasAction
           => slicer.ret = "dict" /\ DOMAIN slicer.context = {}
    /\ slicer.pc \in {"sliced", "decomposed"} /\ HasAction
           => /\ slicer.ret = "dict"
              /\ slicer.context.cycle = slicer.full_game_state.cycle
              /\ slicer.context.duplicants = slicer.full_game_state.duplicants
              /\ slicer.task.action = "Build"
                     => slicer.context.resources = slicer.full_game_state.resources
              /\ slicer.task.action = "Research"
                     => slicer.context.research_progress
                            = slicer.full_game_state.research_progress
    /\ slicer.pc = "decomposed" => slicer.raised = "none"

\* C38: ColonyState.from_dict(s.to_dict()) equals s field for field, with
\* the lists in the same order, for every s whose world ranges are pairs
C38_RoundTrip ==
    codec.pc = "decoded" =>
        /\ codec.back.timestamp = codec.state.timestamp
        /\ codec.back.world = codec.state.world
        /\ codec.back.duplicants = codec.state.duplicants
        /\ codec.back.buildings = codec.state.buildings
        /\ codec.back.resources = codec.state.resources
        /\ codec.back.chores = codec.state.chores
        /\ codec.back.cells = codec.state.cells
        /\ codec.back.alerts = codec.state.alerts

\* a state read back whose values all differ from from_dict's defaults:
\* a microsecond, a temperature range, a duplicant without a task, a
\* building with its own max_health, two resources, chores and alerts
C38_Witness ==
    /\ codec.pc = "decoded"
    /\ codec.state.timestamp.microsecond # 0
    /\ codec.state.world.temperature_range # <<0, 0>>
    /\ Len(codec.state.duplicants) >= 1
    /\ codec.state.duplicants[1].current_task = "None"
    /\ Len(codec.state.buildings) >= 1
    /\ codec.state.buildings[1].max_health # 100
    /\ Len(codec.state.resources) = 2
    /\ Len(codec.state.chores) = 2
    /\ Len(codec.state.alerts) = 2
    /\ codec.dict.buildings[1].maxHealth = codec.state.buildings[1].max_health

====
